---------------------------- MODULE Spec2Model ----------------------------
(***************************************************************************)
(* FiPLSim: fire-sprinkler piping network simulation.                      *)
(*                                                                         *)
(* A model of the grid (Hardy-Cross) network solver of hardy_cross.py, of  *)
(* the input validation and network construction of pipe_network.py and    *)
(* of the hydraulics primitives of hydraulics.py they share.               *)
(*                                                                         *)
(* The source computes in IEEE doubles.  The model computes in integer     *)
(* fixed point, every quantity in its own unit:                            *)
(*     flow            1e-3 LPM   (mLPM)      so 0.01 LPM is 10            *)
(*     diameter        1e-5 m     (0.01 mm)                                *)
(*     length          1e-3 m     (mm)                                     *)
(*     area            1e-7 m^2   (0.1 mm^2)                               *)
(*     velocity        1e-5 m/s                                            *)
(*     Reynolds number 0.1                                                 *)
(*     friction factor 1e-6                                                *)
(*     K factor        1e-3                                                *)
(*     head            1e-9 m     (nm)        so 0.001 m is 1000000        *)
(*     pressure        1e-2 Pa    (cPa)       so 1.4 MPa is 140000000      *)
(* Products are formed so that every intermediate value stays below 2^31.  *)
(***************************************************************************)
EXTENDS Integers, Sequences, FiniteSets, TLC

\* ------------------------------------------------------------------------
\*  constants.py
\* ------------------------------------------------------------------------

\* float('inf'): larger than every head, flow or K factor the model reaches.
INF == 2000000000

\* JIS/KS Schedule 40 inner diameters, id_mm * 100.
PIPE_DIMENSIONS ==
    [s \in {"25A", "32A", "40A", "50A", "65A", "80A", "100A"} |->
        CASE s = "25A" -> 2664
          [] s = "32A" -> 3504
          [] s = "40A" -> 4090
          [] s = "50A" -> 5251
          [] s = "65A" -> 6271
          [] s = "80A" -> 7792
          [] s = "100A" -> 10226]

get_inner_diameter_m(nominal_size) == PIPE_DIMENSIONS[nominal_size]

K1_BASE == 500
K2 == 2500
K3 == 1000
K_TEE_RUN == 300

HC_TOLERANCE_M == 1000000
\* 0.0001 LPM is below the flow unit: a correction is below it exactly when
\* it is 0, that is when it is below 1.
HC_TOLERANCE_LPM == 1
DIVERGE_LIMIT == 3

MAX_BRANCHES == 200
MAX_HEADS_PER_BRANCH == 50

DEFAULT_BRANCH_SPACING_M == 3500
DEFAULT_HEAD_SPACING_M == 2300
DEFAULT_INLET_PRESSURE_MPA == 140000000

\* a variant whose largest tier starts one head later
auto_pipe_size_LateTier(num_heads_downstream) ==
    IF num_heads_downstream >= 13 THEN "65A"
    ELSE IF num_heads_downstream >= 6 THEN "50A"
    ELSE IF num_heads_downstream >= 4 THEN "40A"
    ELSE IF num_heads_downstream >= 3 THEN "32A"
    ELSE "25A"

auto_pipe_size(num_heads_downstream) ==
    IF num_heads_downstream >= 12 THEN "65A"
    ELSE IF num_heads_downstream >= 6 THEN "50A"
    ELSE IF num_heads_downstream >= 4 THEN "40A"
    ELSE IF num_heads_downstream >= 3 THEN "32A"
    ELSE "25A"

auto_cross_main_size(total_heads) ==
    IF total_heads >= 40 THEN "100A"
    ELSE IF total_heads >= 20 THEN "80A"
    ELSE "65A"

\* ------------------------------------------------------------------------
\*  fixed-point helpers (math.sqrt, math.log10, abs, max)
\* ------------------------------------------------------------------------

Abs(x) == IF x >= 0 THEN x ELSE -x
Max(a, b) == IF a >= b THEN a ELSE b
Min(a, b) == IF a <= b THEN a ELSE b

\* floor(a * k / 1000) without forming a * k
MulDiv1000(a, k) == (a \div 1000) * k + ((a % 1000) * k) \div 1000

RECURSIVE SqrtIter(_, _)
SqrtIter(x, r) ==
    LET nr == (r + x \div r) \div 2
    IN  IF nr >= r THEN r ELSE SqrtIter(x, nr)

\* floor(sqrt(x)), Newton's iteration from above
ISqrt(x) == IF x < 2 THEN x ELSE SqrtIter(x, IF x < 46341 THEN x ELSE 46341)

RECURSIVE FloorLog2(_, _)
FloorLog2(x, e) == IF x < 2 ^ (e + 1) THEN e ELSE FloorLog2(x, e + 1)

RECURSIVE LogBits(_, _, _)
LogBits(y, i, acc) ==
    IF i = 0 THEN acc
    ELSE LET y2 == (y * y) \div 16384
         IN  IF y2 >= 32768 THEN LogBits(y2 \div 2, i - 1, 2 * acc + 1)
             ELSE LogBits(y2, i - 1, 2 * acc)

\* log2(x) * 1024 for x >= 1: the exponent, then 10 fraction bits by squaring
Log2_1024(x) ==
    LET e == FloorLog2(x, 0)
        y == IF e >= 14 THEN x \div (2 ^ (e - 14)) ELSE x * (2 ^ (14 - e))
    IN  e * 1024 + LogBits(y, 10, 0)

\* log10(x) * 1000 for x >= 1
Log10m(x) == (Log2_1024(x) * 30103) \div 102400

\* ------------------------------------------------------------------------
\*  hydraulics.py
\* ------------------------------------------------------------------------

\* pi * (D/2)^2, with pi as 355/113
PipeArea(D_m) ==
    LET x == (D_m * D_m) \div 4
    IN  ((x \div 113) * 355 + ((x % 113) * 355) \div 113) \div 1000

reynolds_number(velocity, diameter) ==
    IF diameter <= 0 THEN 0
    ELSE (velocity * diameter) \div 1004

velocity_from_flow(Q_lpm, D_m) ==
    LET A == PipeArea(D_m)
    IN  IF A <= 0 THEN 0
        ELSE (Q_lpm * 50000) \div (3 * A)

RECURSIVE ColebrookIter(_, _, _, _)
ColebrookIter(f, A, B, k) ==
    IF k = 0 THEN f
    ELSE LET sqrt_f == ISqrt(f * 100)
             inner0 == A + (B * 10000) \div sqrt_f
             inner  == IF inner0 <= 0 THEN 1 ELSE inner0
             rhs    == 2 * (6000 - Log10m(inner))
         IN  IF rhs = 0 THEN f
             ELSE LET f_new == ((1000000000 \div rhs) * 1000) \div rhs
                  IN  IF f_new = f THEN f_new
                      ELSE ColebrookIter(f_new, A, B, k - 1)

friction_factor(Re, D) ==
    IF Re <= 0 THEN 0
    ELSE IF Re < 23000 THEN 640000000 \div Re
    ELSE LET A == 45000000 \div (37 * D)
             B == 25100000 \div Re
             log_arg0 == A + (B * 7071) \div 1000
             log_arg  == IF log_arg0 <= 0 THEN 1 ELSE log_arg0
             L  == 6000 - Log10m(log_arg)
             f0 == ((250000000 \div L) * 1000) \div L
         IN  ColebrookIter(f0, A, B, 10)

\* V^2 / 2g, 2g = 19.62: in these units V^2 * 5 / 981
VelocityHead(V) ==
    LET x == V * V
    IN  (x \div 981) * 5 + ((x % 981) * 5) \div 981

major_loss(f, L, D, V) ==
    IF D <= 0 THEN 0
    ELSE LET LD  == (L * 1000) \div D
             fLD == ((f \div 10) * LD) \div 1000
         IN  MulDiv1000(VelocityHead(V), fLD)

\* K * V^2 / 2g.  K = inf (a blocked fitting) gives inf for every V > 0.
minor_loss(K, V) == IF K >= INF THEN INF ELSE MulDiv1000(VelocityHead(V), K)

\* a variant in which the bead does not narrow the pipe
k_welded_fitting_NoBead(bead_height_mm, pipe_id_mm, base_K) == base_K

k_welded_fitting(bead_height_mm, pipe_id_mm, base_K) ==
    LET D == pipe_id_mm
        D_eff == D - 2 * bead_height_mm
    IN  IF D_eff <= 0 THEN INF
        ELSE LET ratio  == (D * 1000) \div D_eff
                 ratio2 == (ratio * ratio) \div 1000
                 ratio4 == (ratio2 * ratio2) \div 1000
             IN  (base_K * ratio4) \div 1000

\* rho * g * h / 1e6, rho * g = 9790 Pa/m
head_to_mpa(h_meters) ==
    IF h_meters >= INF THEN INF ELSE
    ((h_meters \div 1000) * 9790 + ((h_meters % 1000) * 9790) \div 1000) \div 10000


\* ------------------------------------------------------------------------
\*  state
\* ------------------------------------------------------------------------

VARIABLES
    pc,         \* where the call is
    args,       \* the parameters of the call
    error,      \* the exception raised, "none" while there is none
    network,    \* GridNetwork (nodes, pipes, loops, ...), NULL before it is built
    system,     \* DynamicSystem of the tree topology, NULL before it is built
    hc,         \* the locals of solve_hardy_cross
    hc_result,  \* what solve_hardy_cross returned, NULL before
    bfs,        \* the locals of the traversal of calculate_grid_pressures
    result,     \* what calculate_grid_pressures or calculate_dynamic_system
                \* returned, NULL before
    compliance, \* what check_nfpc_compliance returned, NULL before
    sim         \* the locals and the result of compare_dynamic_cases and of
                \* the drivers of simulation.py, NULL before

vars == <<pc, args, error, network, system, hc, hc_result, bfs, result, compliance, sim>>

NULL == [null |-> TRUE]

\* ------------------------------------------------------------------------
\*  pipe_network.py: validation, weld beads, tree construction
\* ------------------------------------------------------------------------

\* a variant without the two upper limits
validate_dynamic_inputs_NoUpperLimit(a) ==
    IF a.num_branches_type # "int" \/ a.num_branches < 1 THEN FALSE
    ELSE IF a.heads_per_branch_type # "int" \/ a.heads_per_branch < 1 THEN FALSE
    ELSE IF a.branch_spacing_m <= 0 THEN FALSE
    ELSE IF a.head_spacing_m <= 0 THEN FALSE
    ELSE IF a.inlet_pressure_mpa <= 0 THEN FALSE
    ELSE IF a.total_flow_lpm <= 0 THEN FALSE
    ELSE TRUE

\* TRUE when validate_dynamic_inputs returns, FALSE when it raises
\* ValidationError.  isinstance(x, int) is the type tag of the argument.
validate_dynamic_inputs(a) ==
    IF a.num_branches_type # "int" \/ a.num_branches < 1 THEN FALSE
    ELSE IF a.num_branches > MAX_BRANCHES THEN FALSE
    ELSE IF a.heads_per_branch_type # "int" \/ a.heads_per_branch < 1 THEN FALSE
    ELSE IF a.heads_per_branch > MAX_HEADS_PER_BRANCH THEN FALSE
    ELSE IF a.branch_spacing_m <= 0 THEN FALSE
    ELSE IF a.head_spacing_m <= 0 THEN FALSE
    ELSE IF a.inlet_pressure_mpa <= 0 THEN FALSE
    ELSE IF a.total_flow_lpm <= 0 THEN FALSE
    ELSE TRUE

\* pipe_sizes of a branch: the size of segment h (0-based) is pipe_sizes[h+1]
BranchPipeSizes(heads_per_branch) ==
    [k \in 1..heads_per_branch |-> auto_pipe_size(heads_per_branch - (k - 1))]

\* rng = None: bead i sits at step * (i + 0.5), step = total_length / num_beads,
\* so int(pos / head_spacing_m) = floor(heads * (2i + 1) / (2 * num_beads)).
generate_branch_beads(heads_per_branch, head_spacing_m, num_beads, bead_height_mm, pipe_sizes, K1_base) ==
    IF num_beads <= 0 THEN << >>
    ELSE [k \in 1..num_beads |->
            LET seg_idx == Min((heads_per_branch * (2 * (k - 1) + 1))
                                   \div (2 * num_beads),
                               heads_per_branch - 1)
                pipe_id_mm == PIPE_DIMENSIONS[pipe_sizes[seg_idx + 1]]
            IN  [segment_index  |-> seg_idx,
                 bead_height_mm |-> bead_height_mm,
                 K_value        |-> k_welded_fitting(bead_height_mm, pipe_id_mm, K1_base)]]

\* bead_heights_2d[b][h]; bead_heights_2d = None (here the empty list) stands
\* for a grid of zeros
BeadHeightAt(a, b, h) ==
    IF a.bead_heights_2d = << >> THEN 0 ELSE a.bead_heights_2d[b + 1][h + 1]

\* the HeadJunction list of branch b, as both generators build it
BranchJunctions(a, b, head_flow) ==
    [k \in 1..a.heads_per_branch |->
        LET h        == k - 1
            nom_size == auto_pipe_size(a.heads_per_branch - h)
            bead_h   == BeadHeightAt(a, b, h)
        IN  [index          |-> h,
             pipe_segment   |-> [index            |-> h,
                                 nominal_size     |-> nom_size,
                                 inner_diameter_m |-> get_inner_diameter_m(nom_size),
                                 length_m         |-> a.head_spacing_m],
             bead_height_mm |-> bead_h,
             K1_welded      |-> k_welded_fitting(bead_h,
                                                 PIPE_DIMENSIONS[nom_size], K1_BASE),
             K2_head        |-> K2,
             head_flow_lpm  |-> head_flow]]

BranchWeldBeads(a) ==
    IF a.beads_per_branch > 0
    THEN generate_branch_beads(a.heads_per_branch, a.head_spacing_m,
                               a.beads_per_branch, a.bead_height_for_weld_mm,
                               BranchPipeSizes(a.heads_per_branch), K1_BASE)
    ELSE << >>

\* generate_dynamic_system after its validation
BuildDynamicSystem(a) ==
    LET total_heads     == a.num_branches * a.heads_per_branch
        cross_main_size == auto_cross_main_size(total_heads)
        branch_flow     == a.total_flow_lpm \div a.num_branches
        head_flow       == branch_flow \div a.heads_per_branch
    IN  [inlet_pressure_mpa |-> a.inlet_pressure_mpa,
         total_flow_lpm     |-> a.total_flow_lpm,
         num_branches       |-> a.num_branches,
         heads_per_branch   |-> a.heads_per_branch,
         branch_spacing_m   |-> a.branch_spacing_m,
         head_spacing_m     |-> a.head_spacing_m,
         cross_main_size    |-> cross_main_size,
         cross_main_segments |->
            [k \in 1..a.num_branches |->
                [index            |-> k - 1,
                 nominal_size     |-> cross_main_size,
                 inner_diameter_m |-> get_inner_diameter_m(cross_main_size),
                 length_m         |-> IF k - 1 > 0 THEN a.branch_spacing_m ELSE 0,
                 flow_lpm         |-> a.total_flow_lpm - (k - 1) * branch_flow]],
         branches |->
            [k \in 1..a.num_branches |->
                [branch_index    |-> k - 1,
                 num_heads       |-> a.heads_per_branch,
                 junctions       |-> BranchJunctions(a, k - 1, head_flow),
                 branch_flow_lpm |-> branch_flow,
                 pipe_sizes      |-> BranchPipeSizes(a.heads_per_branch),
                 weld_beads      |-> BranchWeldBeads(a)]],
         beads_per_branch   |-> a.beads_per_branch]

\* ------------------------------------------------------------------------
\*  hardy_cross.py: grid network construction
\* ------------------------------------------------------------------------

\* Python lists are 0-based, sequences 1-based: element i of list l is l[i + 1]
At(l, i) == l[i + 1]

node_id(row, col, n_cols) == row * n_cols + col

GridNodes(n_cols) ==
    [k \in 1..(2 * n_cols) |->
        LET row == (k - 1) \div n_cols
            col == (k - 1) % n_cols
        IN  [id         |-> node_id(row, col, n_cols),
             row        |-> row,
             col        |-> col,
             demand_lpm |-> 0,
             is_inlet   |-> (row = 0 /\ col = 0)]]

\* the fields every GridPipe has; flow_lpm is 0.0 until the seed is written
GridPipe(pid, s, e, type, size, len, b, junctions, beads, heads) ==
    [id               |-> pid,
     start_node_id    |-> s,
     end_node_id      |-> e,
     pipe_type        |-> type,
     nominal_size     |-> size,
     inner_diameter_m |-> get_inner_diameter_m(size),
     length_m         |-> len,
     flow_lpm         |-> 0,
     branch_index     |-> b,
     junctions        |-> junctions,
     weld_beads       |-> beads,
     heads_per_branch |-> heads]

\* ids handed out by pipe_id_counter, in the order the pipes are appended
cm_top_pipe_ids(n) == [k \in 1..n |-> k - 1]
cm_bot_pipe_ids(n) == [k \in 1..n |-> n + (k - 1)]
branch_pipe_ids(n) == [k \in 1..n |-> 2 * n + (k - 1)]
left_conn_id(n)    == 3 * n
right_conn_id(n)   == 3 * n + 1

GridPipes(a, cross_main_size) ==
    LET n      == a.num_branches
        n_cols == n + 1
        head_flow == (a.total_flow_lpm \div n) \div a.heads_per_branch
        tops == [k \in 1..n |->
                    GridPipe(cm_top_pipe_ids(n)[k],
                             node_id(0, k - 1, n_cols), node_id(0, k, n_cols),
                             "cm_top", cross_main_size, a.branch_spacing_m,
                             -1, << >>, << >>, 0)]
        bots == [k \in 1..n |->
                    GridPipe(cm_bot_pipe_ids(n)[k],
                             node_id(1, k - 1, n_cols), node_id(1, k, n_cols),
                             "cm_bot", cross_main_size, a.branch_spacing_m,
                             -1, << >>, << >>, 0)]
        brs  == [k \in 1..n |->
                    LET col == (k - 1) + 1
                    IN  GridPipe(branch_pipe_ids(n)[k],
                                 node_id(0, col, n_cols), node_id(1, col, n_cols),
                                 "branch", BranchPipeSizes(a.heads_per_branch)[1],
                                 a.heads_per_branch * a.head_spacing_m,
                                 k - 1, BranchJunctions(a, k - 1, head_flow),
                                 BranchWeldBeads(a), a.heads_per_branch)]
        left  == GridPipe(left_conn_id(n),
                          node_id(0, 0, n_cols), node_id(1, 0, n_cols),
                          "connector", cross_main_size, a.head_spacing_m,
                          -1, << >>, << >>, 0)
        right == GridPipe(right_conn_id(n),
                          node_id(0, n, n_cols), node_id(1, n, n_cols),
                          "connector", cross_main_size, a.head_spacing_m,
                          -1, << >>, << >>, 0)
    IN  tops \o bots \o brs \o <<left>> \o <<right>>

\* a variant that leaves out the inner loops
GridLoops_NoInner(n) ==
    LET top == cm_top_pipe_ids(n)
        bot == cm_bot_pipe_ids(n)
        br  == branch_pipe_ids(n)
        first == [index     |-> 0,
                  pipe_ids  |-> <<At(top, 0), At(br, 0), At(bot, 0), left_conn_id(n)>>,
                  directions |-> <<1, 1, -1, -1>>]
        last  == [index     |-> n - 1,
                  pipe_ids  |-> <<top[n], right_conn_id(n), bot[n], br[n]>>,
                  directions |-> <<1, 1, -1, -1>>]
    IN  <<first>> \o (IF n >= 2 THEN <<last>> ELSE << >>)

\* Step 4 of generate_grid_network: the left loop, the inner loops, the right loop
GridLoops(n) ==
    LET top == cm_top_pipe_ids(n)
        bot == cm_bot_pipe_ids(n)
        br  == branch_pipe_ids(n)
        first == [index     |-> 0,
                  pipe_ids  |-> <<At(top, 0), At(br, 0), At(bot, 0), left_conn_id(n)>>,
                  directions |-> <<1, 1, -1, -1>>]
        inner == [i \in 1..(n - 2) |->
                    [index     |-> i,
                     pipe_ids  |-> <<At(top, i), At(br, i), At(bot, i), At(br, i - 1)>>,
                     directions |-> <<1, 1, -1, -1>>]]
        last  == [index     |-> n - 1,
                  pipe_ids  |-> <<top[n], right_conn_id(n), bot[n], br[n]>>,
                  directions |-> <<1, 1, -1, -1>>]
    IN  <<first>> \o inner \o (IF n >= 2 THEN <<last>> ELSE << >>)

\* position of id x in the id list l, 0 when it is not in it
IndexOf(l, x) ==
    IF \E k \in 1..Len(l) : l[k] = x
    THEN CHOOSE k \in 1..Len(l) : l[k] = x
    ELSE 0

\* the seed: every branch carries total / n, the left connector half of the
\* total, the right connector nothing, each cross main what is left after the
\* branches before it.  The assignments run in the order branch, left, right,
\* top, bottom; the last one made to a pipe is the one that stays.
initialize_grid_flows(pipes, num_branches, branch_flow, total_flow_lpm, cm_top_ids, cm_bot_ids, branch_ids, left_id, right_id) ==
    LET half_flow  == total_flow_lpm \div 2
        top_supply == total_flow_lpm - half_flow
    IN  [k \in 1..Len(pipes) |->
            LET pid == k - 1
            IN  [pipes[k] EXCEPT !.flow_lpm =
                    IF IndexOf(cm_bot_ids, pid) > 0
                        THEN half_flow - (IndexOf(cm_bot_ids, pid) - 1) * branch_flow
                    ELSE IF IndexOf(cm_top_ids, pid) > 0
                        THEN top_supply - (IndexOf(cm_top_ids, pid) - 1) * branch_flow
                    ELSE IF pid = right_id THEN 0
                    ELSE IF pid = left_id THEN half_flow
                    ELSE IF IndexOf(branch_ids, pid) > 0 THEN branch_flow
                    ELSE pipes[k].flow_lpm]]

\* generate_grid_network after its validation
BuildGridNetwork(a) ==
    LET total_heads     == a.num_branches * a.heads_per_branch
        cross_main_size == auto_cross_main_size(total_heads)
        n_cols          == a.num_branches + 1
        branch_flow     == a.total_flow_lpm \div a.num_branches
    IN  [nodes              |-> GridNodes(n_cols),
         pipes              |-> initialize_grid_flows(
                                    GridPipes(a, cross_main_size),
                                    a.num_branches, branch_flow, a.total_flow_lpm,
                                    cm_top_pipe_ids(a.num_branches),
                                    cm_bot_pipe_ids(a.num_branches),
                                    branch_pipe_ids(a.num_branches),
                                    left_conn_id(a.num_branches),
                                    right_conn_id(a.num_branches)),
         loops              |-> GridLoops(a.num_branches),
         inlet_node_id      |-> node_id(0, 0, n_cols),
         inlet_pressure_mpa |-> a.inlet_pressure_mpa,
         total_flow_lpm     |-> a.total_flow_lpm,
         num_branches       |-> a.num_branches,
         heads_per_branch   |-> a.heads_per_branch,
         branch_spacing_m   |-> a.branch_spacing_m,
         head_spacing_m     |-> a.head_spacing_m,
         cross_main_size    |-> cross_main_size,
         beads_per_branch   |-> a.beads_per_branch]

\* ------------------------------------------------------------------------
\*  hardy_cross.py: head loss of one pipe
\* ------------------------------------------------------------------------

RECURSIVE SeqSum(_)
SeqSum(s) == IF s = << >> THEN 0 ELSE s[1] + SeqSum(Tail(s))

\* the losses of segment i (0-based) of a branch carrying seg_flow:
\* major + K1 + K2 + the weld beads placed in the segment
SegmentLosses(pipe, i, seg_flow) ==
    LET junc == At(pipe.junctions, i)
        seg  == junc.pipe_segment
        V    == velocity_from_flow(seg_flow, seg.inner_diameter_m)
        Re   == reynolds_number(V, seg.inner_diameter_m)
        f    == friction_factor(Re, seg.inner_diameter_m)
        beads_in_seg == SelectSeq(pipe.weld_beads, LAMBDA b : b.segment_index = i)
    IN  [major |-> major_loss(f, seg.length_m, seg.inner_diameter_m, V),
         K1    |-> minor_loss(junc.K1_welded, V),
         K2    |-> minor_loss(junc.K2_head, V),
         weld  |-> [k \in 1..Len(beads_in_seg) |-> minor_loss(beads_in_seg[k].K_value, V)]]

branch_total_head_loss(pipe, Q_total_lpm, K1_base, K3_val) ==
    IF Q_total_lpm < 10 \/ pipe.heads_per_branch = 0 THEN 0
    ELSE
        LET m         == pipe.heads_per_branch
            head_flow == Q_total_lpm \div m
            V_inlet   == velocity_from_flow(Q_total_lpm,
                             At(pipe.junctions, 0).pipe_segment.inner_diameter_m)
            per_seg   == [k \in 1..Len(pipe.junctions) |->
                            LET seg_flow == Q_total_lpm - (k - 1) * head_flow
                            IN  IF seg_flow < 10 THEN 0
                                ELSE LET l == SegmentLosses(pipe, k - 1, seg_flow)
                                     IN  l.major + l.K1 + l.K2 + SeqSum(l.weld)]
        IN  minor_loss(K3_val, V_inlet) + SeqSum(per_seg)

pipe_head_loss(pipe, Q_abs_lpm, K1_base, K3_val) ==
    IF Q_abs_lpm < 10 THEN 0
    ELSE
        LET D == pipe.inner_diameter_m
            V  == velocity_from_flow(Q_abs_lpm, D)
            Re == reynolds_number(V, D)
            f  == friction_factor(Re, D)
        IN  IF pipe.pipe_type \in {"cm_top", "cm_bot"}
                THEN major_loss(f, pipe.length_m, D, V) + minor_loss(K_TEE_RUN, V)
            ELSE IF pipe.pipe_type = "connector"
                THEN major_loss(f, pipe.length_m, D, V)
            ELSE IF pipe.pipe_type = "branch"
                THEN branch_total_head_loss(pipe, Q_abs_lpm, K1_base, K3_val)
            ELSE 0

\* ------------------------------------------------------------------------
\*  hardy_cross.py: one loop of one Hardy-Cross iteration
\* ------------------------------------------------------------------------

\* a variant that takes the sensitivity of every pipe whose flow is not zero
LoopTermOf_AnyFlow(Q_signed, Q_abs, h) ==
    [hf  |-> IF Q_signed >= 0 THEN h ELSE -h,
     dhf |-> IF Q_abs > 0 THEN (2 * h) \div Q_abs ELSE 0]

\* what a pipe with head loss h adds to sum_hf and to sum_dhf_dQ
LoopTermOf(Q_signed, Q_abs, h) ==
    [hf  |-> IF Q_signed >= 0 THEN h ELSE -h,
     dhf |-> IF Q_abs > 10 THEN (2 * h) \div Q_abs ELSE 0]

\* the body of "for pid, direction in zip(loop.pipe_ids, loop.directions)"
LoopTerm(pipe, direction) ==
    LoopTermOf(pipe.flow_lpm * direction, Abs(pipe.flow_lpm),
               pipe_head_loss(pipe, Abs(pipe.flow_lpm), K1_BASE, K3))

SumTerms(term) ==
    [sum_hf     |-> SeqSum([k \in 1..Len(term) |-> term[k].hf]),
     sum_dhf_dQ |-> SeqSum([k \in 1..Len(term) |-> term[k].dhf])]

\* sum_hf and sum_dhf_dQ of a loop under the flows in pipes
LoopSums(pipes, loop) ==
    SumTerms([k \in 1..Len(loop.pipe_ids) |->
                LoopTerm(At(pipes, loop.pipe_ids[k]), loop.directions[k])])

\* delta_Q = -sum_hf / sum_dhf_dQ * relaxation, relaxation in tenths;
\* the quotient is taken on the magnitude and the sign put back
LoopDeltaQ(sums, relaxation) ==
    IF sums.sum_dhf_dQ > 0
    THEN LET mag == (Abs(sums.sum_hf) * relaxation) \div (sums.sum_dhf_dQ * 10)
         IN  IF sums.sum_hf >= 0 THEN -mag ELSE mag
    ELSE 0

\* a variant that keeps every stored flow positive by turning the pipe round
RECURSIVE ApplyDeltaQ_Reorient(_, _, _, _)
ApplyDeltaQ_Reorient(pipes, loop, delta_Q, k) ==
    IF k > Len(loop.pipe_ids) THEN pipes
    ELSE LET idx == loop.pipe_ids[k] + 1
             q   == pipes[idx].flow_lpm + delta_Q * loop.directions[k]
         IN  ApplyDeltaQ_Reorient(
                [pipes EXCEPT ![idx] =
                    IF q >= 0 THEN [@ EXCEPT !.flow_lpm = q]
                    ELSE [@ EXCEPT !.flow_lpm = -q,
                                   !.start_node_id = pipes[idx].end_node_id,
                                   !.end_node_id = pipes[idx].start_node_id]],
                loop, delta_Q, k + 1)

\* for pid, direction in zip(...): pipes[pid].flow_lpm += delta_Q * direction
RECURSIVE ApplyDeltaQ(_, _, _, _)
ApplyDeltaQ(pipes, loop, delta_Q, k) ==
    IF k > Len(loop.pipe_ids) THEN pipes
    ELSE LET idx == loop.pipe_ids[k] + 1
         IN  ApplyDeltaQ([pipes EXCEPT ![idx].flow_lpm = @ + delta_Q * loop.directions[k]],
                         loop, delta_Q, k + 1)

\* the flows and the locals after a loop of imbalance sum_hf got delta_Q
LoopCorrected(h, pipes, loop, sum_hf, delta_Q) ==
    [pipes  |-> ApplyDeltaQ(pipes, loop, delta_Q, 1),
     locals |-> [h EXCEPT
                    !.max_imbalance = Max(@, Abs(sum_hf)),
                    !.max_delta_Q   = Max(@, Abs(delta_Q)),
                    !.loop_idx      = @ + 1]]

\* one pass of the body of "for loop in network.loops", the sums being known
LoopPass(h, pipes, loop, sums, relaxation) ==
    LoopCorrected(h, pipes, loop, sums.sum_hf, LoopDeltaQ(sums, relaxation))

\* ------------------------------------------------------------------------
\*  the calls and their parameters
\* ------------------------------------------------------------------------

MaxBranches   == 3
MaxHeads      == 3
MaxIterations == 7

\* total flows: 0.12 LPM, 6 LPM and 12 LPM
TotalFlowChoices   == {120, 6000, 12000}
\* relaxation 0.5 (HC_RELAXATION_FACTOR) and 1.0
RelaxationChoices  == {5, 10}
IterationChoices   == {0, 1, MaxIterations}
\* tolerance_m 3e-6 m and HC_TOLERANCE_M
ToleranceMChoices  == {3000, HC_TOLERANCE_M}
\* tolerance_lpm HC_TOLERANCE_LPM (below the flow unit, kept at one unit) and 0.01
ToleranceLpmChoices == {HC_TOLERANCE_LPM, 10}

Args(n, nt, m, mt, bs, hs, p, q, beads, it, tm, tq, rx) ==
    [num_branches            |-> n,
     num_branches_type       |-> nt,
     heads_per_branch        |-> m,
     heads_per_branch_type   |-> mt,
     branch_spacing_m        |-> bs,
     head_spacing_m          |-> hs,
     inlet_pressure_mpa      |-> p,
     total_flow_lpm          |-> q,
     bead_heights_2d         |-> << >>,
     beads_per_branch        |-> beads,
     bead_height_for_weld_mm |-> 150,
     max_iterations          |-> it,
     tolerance_m             |-> tm,
     tolerance_lpm           |-> tq,
     relaxation              |-> rx]

\* grid calls with valid parameters
GridArgs ==
    { Args(n, "int", m, "int", DEFAULT_BRANCH_SPACING_M, DEFAULT_HEAD_SPACING_M,
           DEFAULT_INLET_PRESSURE_MPA, q, 0, it, tm, tq, rx) :
        n \in 1..MaxBranches, m \in 1..MaxHeads, q \in TotalFlowChoices,
        it \in IterationChoices, tm \in ToleranceMChoices,
        tq \in ToleranceLpmChoices, rx \in RelaxationChoices }

NoHC == [iteration |-> 0, loop_idx |-> 0, max_imbalance |-> 0, max_delta_Q |-> 0,
         iterations_used |-> 0, final_imbalance |-> INF, final_max_delta_Q |-> INF,
         prev_imbalance |-> INF, diverge_count |-> 0, diverged |-> FALSE,
         imbalance_history |-> << >>, delta_Q_history |-> << >>]

\* assigned and popped record the traversal: the nodes in the order
\* node_pressures[...] was assigned, and in the order they left the queue
NoBFS == [node_pressures |-> << >>, visited |-> {}, queue |-> << >>,
          assigned |-> << >>, popped |-> << >>]

InitWith(a) ==
    /\ pc = "start"
    /\ args = a
    /\ error = "none"
    /\ network = NULL
    /\ system = NULL
    /\ hc = NoHC
    /\ hc_result = NULL
    /\ bfs = NoBFS
    /\ result = NULL
    /\ compliance = NULL
    /\ sim = NULL

Init == \E a \in GridArgs : InitWith(a)

\* ------------------------------------------------------------------------
\*  actions
\* ------------------------------------------------------------------------

\* generate_grid_network: validation first, then nodes, pipes, loops, seed
GenerateGridNetwork ==
    /\ pc = "start"
    /\ IF validate_dynamic_inputs(args)
       THEN /\ network' = BuildGridNetwork(args)
            /\ pc' = "generated"
            /\ error' = error
       ELSE /\ network' = network
            /\ pc' = "raised"
            /\ error' = "ValidationError"
    /\ UNCHANGED <<args, system, hc, hc_result, bfs, result, sim, compliance>>

\* generate_dynamic_system: validation first, then cross main and branches
GenerateDynamicSystem ==
    /\ pc = "start"
    /\ IF validate_dynamic_inputs(args)
       THEN /\ system' = BuildDynamicSystem(args)
            /\ pc' = "generated_tree"
            /\ error' = error
       ELSE /\ system' = system
            /\ pc' = "raised"
            /\ error' = "ValidationError"
    /\ UNCHANGED <<args, network, hc, hc_result, bfs, result, sim, compliance>>

\* solve_hardy_cross up to its for loop
HCStart ==
    /\ pc = "generated"
    /\ hc' = NoHC
    /\ pc' = "hc_for"
    /\ UNCHANGED <<args, error, network, system, hc_result, bfs, result, sim, compliance>>

\* a variant whose range runs one iteration too far
HCFor_OneMore ==
    /\ pc = "hc_for"
    /\ IF hc.iteration <= args.max_iterations
       THEN /\ hc' = [hc EXCEPT !.max_imbalance = 0, !.max_delta_Q = 0, !.loop_idx = 0]
            /\ pc' = "hc_loops"
       ELSE /\ hc' = hc
            /\ pc' = "hc_return"
    /\ UNCHANGED <<args, error, network, system, hc_result, bfs, result, sim, compliance>>

\* for iteration in range(max_iterations): the next iteration starts with
\* both maxima at 0.0, or the range is exhausted
HCFor ==
    /\ pc = "hc_for"
    /\ IF hc.iteration < args.max_iterations
       THEN /\ hc' = [hc EXCEPT !.max_imbalance = 0, !.max_delta_Q = 0, !.loop_idx = 0]
            /\ pc' = "hc_loops"
       ELSE /\ hc' = hc
            /\ pc' = "hc_return"
    /\ UNCHANGED <<args, error, network, system, hc_result, bfs, result, sim, compliance>>

\* the body of "for loop in loops" for the next loop: its sums, its
\* correction, the correction applied to its pipes, the two maxima
HCLoop ==
    /\ pc = "hc_loops"
    /\ hc.loop_idx < Len(network.loops)
    /\ LET after == LoopPass(hc, network.pipes, At(network.loops, hc.loop_idx),
                              LoopSums(network.pipes, At(network.loops, hc.loop_idx)),
                              args.relaxation)
       IN  /\ network' = [network EXCEPT !.pipes = after.pipes]
           /\ hc' = after.locals
    /\ UNCHANGED <<pc, args, error, system, hc_result, bfs, result, sim, compliance>>

\* max_imbalance > prev_imbalance * 1.01, with prev_imbalance = inf at first
Grew(max_imbalance, prev_imbalance) ==
    /\ prev_imbalance # INF
    /\ max_imbalance - prev_imbalance > prev_imbalance \div 100

\* a variant that never resets the counter: three increases, consecutive or not
HCEndIteration_NoReset ==
    /\ pc = "hc_loops"
    /\ hc.loop_idx = Len(network.loops)
    /\ LET grew  == Grew(hc.max_imbalance, hc.prev_imbalance)
           count == IF grew THEN hc.diverge_count + 1 ELSE hc.diverge_count
           abort == grew /\ count >= DIVERGE_LIMIT
           done  == /\ hc.max_imbalance < args.tolerance_m
                    /\ hc.max_delta_Q < args.tolerance_lpm
           h1    == [hc EXCEPT
                        !.iterations_used   = hc.iteration + 1,
                        !.final_imbalance   = hc.max_imbalance,
                        !.final_max_delta_Q = hc.max_delta_Q,
                        !.imbalance_history = Append(@, hc.max_imbalance),
                        !.delta_Q_history   = Append(@, hc.max_delta_Q),
                        !.diverge_count     = count]
       IN  IF abort
           THEN /\ hc' = [h1 EXCEPT !.diverged = TRUE]
                /\ pc' = "hc_return"
           ELSE IF done
           THEN /\ hc' = [h1 EXCEPT !.prev_imbalance = hc.max_imbalance]
                /\ pc' = "hc_return"
           ELSE /\ hc' = [h1 EXCEPT !.prev_imbalance = hc.max_imbalance,
                                    !.iteration = @ + 1]
                /\ pc' = "hc_for"
    /\ UNCHANGED <<args, error, network, system, hc_result, bfs, result, sim, compliance>>

\* the end of an iteration: the histories, the divergence counter, the
\* convergence test
HCEndIteration ==
    /\ pc = "hc_loops"
    /\ hc.loop_idx = Len(network.loops)
    /\ LET grew  == Grew(hc.max_imbalance, hc.prev_imbalance)
           count == IF grew THEN hc.diverge_count + 1 ELSE 0
           abort == grew /\ count >= DIVERGE_LIMIT
           done  == /\ hc.max_imbalance < args.tolerance_m
                    /\ hc.max_delta_Q < args.tolerance_lpm
           h1    == [hc EXCEPT
                        !.iterations_used   = hc.iteration + 1,
                        !.final_imbalance   = hc.max_imbalance,
                        !.final_max_delta_Q = hc.max_delta_Q,
                        !.imbalance_history = Append(@, hc.max_imbalance),
                        !.delta_Q_history   = Append(@, hc.max_delta_Q),
                        !.diverge_count     = count]
       IN  IF abort
           THEN /\ hc' = [h1 EXCEPT !.diverged = TRUE]
                /\ pc' = "hc_return"
           ELSE IF done
           THEN /\ hc' = [h1 EXCEPT !.prev_imbalance = hc.max_imbalance]
                /\ pc' = "hc_return"
           ELSE /\ hc' = [h1 EXCEPT !.prev_imbalance = hc.max_imbalance,
                                    !.iteration = @ + 1]
                /\ pc' = "hc_for"
    /\ UNCHANGED <<args, error, network, system, hc_result, bfs, result, sim, compliance>>

\* the dictionary solve_hardy_cross returns
HCReturn ==
    /\ pc = "hc_return"
    /\ hc_result' = [converged         |-> hc.final_imbalance < args.tolerance_m,
                     iterations        |-> hc.iterations_used,
                     max_imbalance_m   |-> hc.final_imbalance,
                     max_delta_Q_lpm   |-> hc.final_max_delta_Q,
                     imbalance_history |-> hc.imbalance_history,
                     delta_Q_history   |-> hc.delta_Q_history,
                     diverged          |-> hc.diverged]
    /\ pc' = "solved"
    /\ UNCHANGED <<args, error, network, system, hc, bfs, result, sim, compliance>>

\* ------------------------------------------------------------------------
\*  hardy_cross.py: calculate_grid_pressures
\* ------------------------------------------------------------------------

\* round(x, k) of Python, q being 10^-k in the unit of x: to the nearest
\* multiple of q, a tie to the even one
RoundTo(x, q) ==
    LET a  == Abs(x)
        lo == (a \div q) * q
        r  == a - lo
        up == IF 2 * r > q THEN lo + q
              ELSE IF 2 * r < q THEN lo
              ELSE IF (lo \div q) % 2 = 0 THEN lo ELSE lo + q
    IN  IF x < 0 THEN -up ELSE up

\* node_adj[nid]: (pipe id, +1) for each pipe starting at nid and
\* (pipe id, -1) for each pipe ending there, in the order of the pipe list
RECURSIVE NodeAdj(_, _, _)
NodeAdj(pipes, nid, k) ==
    IF k > Len(pipes) THEN << >>
    ELSE (IF pipes[k].start_node_id = nid THEN << <<pipes[k].id, 1>> >> ELSE << >>)
         \o (IF pipes[k].end_node_id = nid THEN << <<pipes[k].id, -1>> >> ELSE << >>)
         \o NodeAdj(pipes, nid, k + 1)

\* dict.get(key, default)
Get(d, key, default) == IF key \in DOMAIN d THEN d[key] ELSE default

\* the for loop over node_adj[current], from its k-th entry on
RECURSIVE VisitNeighbors(_, _, _, _, _)
VisitNeighbors(b, pipes, adj, current_p, k) ==
    IF k > Len(adj) THEN b
    ELSE
        LET pid       == adj[k][1]
            direction == adj[k][2]
            pipe      == At(pipes, pid)
            neighbor  == IF direction = 1 THEN pipe.end_node_id ELSE pipe.start_node_id
        IN  IF neighbor \in b.visited
            THEN VisitNeighbors(b, pipes, adj, current_p, k + 1)
            ELSE
                LET h_loss     == pipe_head_loss(pipe, Abs(pipe.flow_lpm), K1_BASE, K3)
                    p_loss     == head_to_mpa(h_loss)
                    flow_sign  == IF pipe.flow_lpm >= 0 THEN 1 ELSE -1
                    neighbor_p == IF flow_sign * direction > 0
                                  THEN current_p - p_loss
                                  ELSE current_p + p_loss
                    b1 == [b EXCEPT
                            !.node_pressures =
                                [x \in DOMAIN @ \cup {neighbor} |->
                                    IF x = neighbor THEN neighbor_p ELSE @[x]],
                            !.visited  = @ \cup {neighbor},
                            !.queue    = Append(@, neighbor),
                            !.assigned = Append(@, neighbor)]
                IN  VisitNeighbors(b1, pipes, adj, current_p, k + 1)

\* _calculate_grid_branch_profile
RECURSIVE RunningDrop(_, _, _)
RunningDrop(start, losses, k) ==
    IF k = 0 THEN start ELSE RunningDrop(start, losses, k - 1) - losses[k]

\* seg_flow = max(Q_total_lpm - i * head_flow, 0.01)
SegFlow(Q_total_lpm, m, i) == Max(Q_total_lpm - i * (Q_total_lpm \div m), 10)

\* total_seg_loss: each loss of the segment converted to MPa, then added
SegmentLossMpa(l) ==
    head_to_mpa(l.major) + head_to_mpa(l.K1) + head_to_mpa(l.K2)
    + SeqSum([j \in 1..Len(l.weld) |-> head_to_mpa(l.weld[j])])

\* the profile, the pressure after each segment being known
ProfileRecord(pipe, branch_inlet_pressure_mpa, Q_total_lpm, K3_loss, seg_loss, pressures) ==
    [positions             |-> [k \in 1..(pipe.heads_per_branch + 1) |-> k - 1],
     pressures_mpa         |-> pressures,
     cumulative_loss_mpa   |-> [k \in 1..Len(pressures) |->
                                   branch_inlet_pressure_mpa - pressures[k]],
     terminal_pressure_mpa |-> pressures[Len(pressures)],
     K3_loss_mpa           |-> K3_loss,
     segment_details       |->
        [k \in 1..Len(seg_loss) |->
            [head_number        |-> k,
             pipe_size          |-> pipe.junctions[k].pipe_segment.nominal_size,
             flow_lpm           |-> RoundTo(SegFlow(Q_total_lpm, pipe.heads_per_branch, k - 1), 10),
             total_seg_loss_mpa |-> RoundTo(seg_loss[k], 100),
             pressure_after_mpa |-> RoundTo(pressures[k + 1], 100),
             bead_height_mm     |-> pipe.junctions[k].bead_height_mm]]]

\* current_p after the K3 loss, then after the loss of each segment in turn
ProfileAfterK3(pipe, branch_inlet_pressure_mpa, Q_total_lpm, K3_loss, seg_loss) ==
    ProfileRecord(pipe, branch_inlet_pressure_mpa, Q_total_lpm, K3_loss, seg_loss,
        <<branch_inlet_pressure_mpa>>
        \o [k \in 1..Len(seg_loss) |->
                RunningDrop(branch_inlet_pressure_mpa - K3_loss, seg_loss, k)])

calculate_grid_branch_profile(pipe, branch_inlet_pressure_mpa, Q_total_lpm, K3_val) ==
    LET m == pipe.heads_per_branch
    IN  IF m = 0 \/ Q_total_lpm < 10
        THEN [positions             |-> <<0>>,
              pressures_mpa         |-> <<branch_inlet_pressure_mpa>>,
              cumulative_loss_mpa   |-> <<0>>,
              terminal_pressure_mpa |-> branch_inlet_pressure_mpa,
              K3_loss_mpa           |-> 0,
              segment_details       |-> << >>]
        ELSE
            ProfileAfterK3(pipe, branch_inlet_pressure_mpa, Q_total_lpm,
                head_to_mpa(minor_loss(K3_val,
                    velocity_from_flow(Q_total_lpm,
                        At(pipe.junctions, 0).pipe_segment.inner_diameter_m))),
                [k \in 1..Len(pipe.junctions) |->
                    SegmentLossMpa(SegmentLosses(pipe, k - 1,
                        SegFlow(Q_total_lpm, pipe.heads_per_branch, k - 1)))])

\* the branch pipe of branch b: the first pipe of type branch with that index
BranchPipeOf(pipes, b) ==
    pipes[CHOOSE k \in 1..Len(pipes) :
            /\ pipes[k].pipe_type = "branch" /\ pipes[k].branch_index = b
            /\ \A j \in 1..(k - 1) :
                    ~(pipes[j].pipe_type = "branch" /\ pipes[j].branch_index = b)]

\* inflow and outflow of a node under the final flows
NodeFlows(net, node) ==
    LET inn(p)  == IF p.start_node_id = node.id
                   THEN (IF p.flow_lpm >= 0 THEN 0 ELSE Abs(p.flow_lpm))
                   ELSE IF p.end_node_id = node.id
                   THEN (IF p.flow_lpm >= 0 THEN p.flow_lpm ELSE 0)
                   ELSE 0
        out(p)  == IF p.start_node_id = node.id
                   THEN (IF p.flow_lpm >= 0 THEN p.flow_lpm ELSE 0)
                   ELSE IF p.end_node_id = node.id
                   THEN (IF p.flow_lpm >= 0 THEN 0 ELSE Abs(p.flow_lpm))
                   ELSE 0
    IN  [inflow  |-> (IF node.is_inlet THEN net.total_flow_lpm ELSE 0)
                     + SeqSum([k \in 1..Len(net.pipes) |-> inn(net.pipes[k])]),
         outflow |-> SeqSum([k \in 1..Len(net.pipes) |-> out(net.pipes[k])])]

\* a variant that takes the first branch whatever the pressures are
ArgMin_AlwaysFirst(l) == 0

\* index of the first smallest element of a 1-based list, 0-based
ArgMin(l) ==
    (CHOOSE k \in 1..Len(l) :
        /\ \A j \in 1..Len(l) : l[k] <= l[j]
        /\ \A j \in 1..(k - 1) : l[j] > l[k]) - 1

\* the worst branch of calculate_dynamic_system: the index of the lowest
\* terminal pressure and that pressure
WorstOfTree(all_terminal_pressures) ==
    [worst_idx      |-> ArgMin(all_terminal_pressures),
     worst_terminal |-> At(all_terminal_pressures, ArgMin(all_terminal_pressures))]

\* the worst branch of calculate_grid_pressures: the same, and (0, 0.0) for
\* an empty list
WorstOfGrid(all_terminal_pressures) ==
    IF all_terminal_pressures # << >>
    THEN [worst_idx      |-> ArgMin(all_terminal_pressures),
          worst_terminal |-> At(all_terminal_pressures, ArgMin(all_terminal_pressures))]
    ELSE [worst_idx |-> 0, worst_terminal |-> 0]

\* a variant that starts every branch from its TOP node
BranchInletPressure_AlwaysTop(net, node_pressures, b) ==
    Get(node_pressures, node_id(0, b + 1, net.num_branches + 1), net.inlet_pressure_mpa)

\* branch_inlet_p: the TOP node's pressure when the branch flows downward,
\* the BOTTOM node's otherwise
BranchInletPressure(net, node_pressures, b) ==
    IF BranchPipeOf(net.pipes, b).flow_lpm >= 0
    THEN Get(node_pressures, node_id(0, b + 1, net.num_branches + 1), net.inlet_pressure_mpa)
    ELSE Get(node_pressures, node_id(1, b + 1, net.num_branches + 1), net.inlet_pressure_mpa)

\* the profile of branch b, from its inlet pressure and its flow
BranchProfile(branch_pipe, inlet_p) ==
    calculate_grid_branch_profile(branch_pipe, inlet_p, Abs(branch_pipe.flow_lpm), K3)

\* the dictionary calculate_grid_pressures builds, the profiles being known
GridResultOf(net, node_pressures, inlet_ps, profiles) ==
    LET n_branches == net.num_branches
        n_cols     == n_branches + 1
        terminals == [k \in 1..n_branches |-> profiles[k].terminal_pressure_mpa]
        cm_losses == [k \in 1..n_branches |->
                        IF k - 1 = 0 THEN 0
                        ELSE Abs(Get(node_pressures, node_id(0, k - 1, n_cols), 0)
                                 - Get(node_pressures, node_id(0, k, n_cols), 0))]
    IN  [branch_inlet_pressures |-> inlet_ps,
         branch_profiles        |-> profiles,
         cross_main_losses      |-> cm_losses,
         cross_main_cumulative  |-> SeqSum(cm_losses),
         worst_branch_index     |-> WorstOfGrid(terminals).worst_idx,
         worst_terminal_mpa     |-> WorstOfGrid(terminals).worst_terminal,
         all_terminal_pressures |-> terminals,
         total_heads            |-> net.num_branches * net.heads_per_branch,
         cross_main_size        |-> net.cross_main_size,
         topology               |-> "grid",
         node_data              |->
            [k \in 1..Len(net.nodes) |->
                LET node == net.nodes[k]
                    fl   == NodeFlows(net, node)
                IN  [node_id      |-> node.id,
                     row          |-> IF node.row = 0 THEN "TOP" ELSE "BOT",
                     col          |-> node.col,
                     is_inlet     |-> node.is_inlet,
                     demand_lpm   |-> RoundTo(node.demand_lpm, 10),
                     inflow_lpm   |-> RoundTo(fl.inflow, 10),
                     outflow_lpm  |-> RoundTo(fl.outflow, 10),
                     \* rounded to 0.0001 LPM, a tenth of the flow unit
                     balance_lpm  |-> fl.inflow - fl.outflow,
                     pressure_mpa |-> RoundTo(Get(node_pressures, node.id, 0), 100)]]]

\* the dictionary calculate_grid_pressures builds once the traversal is over
GridResultBase(net, node_pressures) ==
    GridResultOf(net, node_pressures,
        [k \in 1..net.num_branches |-> BranchInletPressure(net, node_pressures, k - 1)],
        [k \in 1..net.num_branches |->
            BranchProfile(BranchPipeOf(net.pipes, k - 1),
                          BranchInletPressure(net, node_pressures, k - 1))])

\* if hc_result: the fields of the solver are added to the dictionary
WithSolverFields(base, hcr) ==
    [k \in DOMAIN base \cup {"hc_iterations", "hc_max_imbalance_m", "hc_converged",
                             "hc_max_delta_Q_lpm", "hc_diverged",
                             "imbalance_history", "delta_Q_history"} |->
        IF k = "hc_iterations" THEN hcr.iterations
        ELSE IF k = "hc_max_imbalance_m" THEN hcr.max_imbalance_m
        ELSE IF k = "hc_converged" THEN hcr.converged
        ELSE IF k = "hc_max_delta_Q_lpm" THEN hcr.max_delta_Q_lpm
        ELSE IF k = "hc_diverged" THEN hcr.diverged
        ELSE IF k = "imbalance_history" THEN hcr.imbalance_history
        ELSE IF k = "delta_Q_history" THEN hcr.delta_Q_history
        ELSE base[k]]

\* a variant that reports the solver only when it converged
GridResult_OnlyWhenConverged(net, node_pressures, hcr) ==
    IF hcr.converged
    THEN WithSolverFields(GridResultBase(net, node_pressures), hcr)
    ELSE GridResultBase(net, node_pressures)

\* the dictionary calculate_grid_pressures returns
GridResult(net, node_pressures, hcr) ==
    WithSolverFields(GridResultBase(net, node_pressures), hcr)

\* a variant that forgets to mark the inlet visited
CalcStart_InletNotVisited ==
    /\ pc = "solved"
    /\ bfs' = [node_pressures |-> [x \in {network.inlet_node_id} |->
                                        network.inlet_pressure_mpa],
               visited        |-> {},
               queue          |-> <<network.inlet_node_id>>,
               assigned       |-> <<network.inlet_node_id>>,
               popped         |-> << >>]
    /\ pc' = "bfs"
    /\ UNCHANGED <<args, error, network, system, hc, hc_result, result, sim, compliance>>

\* calculate_grid_pressures up to its while loop: the inlet has its pressure
\* and is the only node visited and queued
CalcStart ==
    /\ pc = "solved"
    /\ bfs' = [node_pressures |-> [x \in {network.inlet_node_id} |->
                                        network.inlet_pressure_mpa],
               visited        |-> {network.inlet_node_id},
               queue          |-> <<network.inlet_node_id>>,
               assigned       |-> <<network.inlet_node_id>>,
               popped         |-> << >>]
    /\ pc' = "bfs"
    /\ UNCHANGED <<args, error, network, system, hc, hc_result, result, sim, compliance>>

\* one turn of "while queue": pop the head, give every neighbour not yet
\* visited its pressure and queue it
BfsStep ==
    /\ pc = "bfs"
    /\ bfs.queue # << >>
    /\ LET current   == Head(bfs.queue)
           current_p == bfs.node_pressures[current]
           b0        == [bfs EXCEPT !.queue = Tail(@), !.popped = Append(@, current)]
       IN  bfs' = VisitNeighbors(b0, network.pipes,
                                 NodeAdj(network.pipes, current, 1), current_p, 1)
    /\ UNCHANGED <<pc, args, error, network, system, hc, hc_result, result, sim, compliance>>

\* the queue is empty: profiles, worst branch, node data, solver fields
CalcFinish ==
    /\ pc = "bfs"
    /\ bfs.queue = << >>
    /\ result' = GridResult(network, bfs.node_pressures, hc_result)
    /\ pc' = "done"
    /\ UNCHANGED <<args, error, network, system, hc, hc_result, bfs, sim, compliance>>

Next ==
    \/ GenerateGridNetwork
    \/ HCStart
    \/ HCFor
    \/ HCLoop
    \/ HCEndIteration
    \/ HCReturn
    \/ CalcStart
    \/ BfsStep
    \/ CalcFinish

Spec == Init /\ [][Next]_vars

\* ------------------------------------------------------------------------
\*  the two generators called on their own, with parameters of every kind
\* ------------------------------------------------------------------------

BranchCountChoices == {-1, 0, 1, MaxBranches, MAX_BRANCHES, MAX_BRANCHES + 1}
HeadCountChoices   == {0, 1, MaxHeads, MAX_HEADS_PER_BRANCH, MAX_HEADS_PER_BRANCH + 1}
\* int, or a float such as 2.0
TypeChoices        == {"int", "float"}
BranchSpacingChoices == {0, DEFAULT_BRANCH_SPACING_M}
HeadSpacingChoices   == {-DEFAULT_HEAD_SPACING_M, DEFAULT_HEAD_SPACING_M}
PressureChoices      == {0, DEFAULT_INLET_PRESSURE_MPA}
RawFlowChoices       == {-120, 0, 6000}
BeadCountChoices     == {0, 2}

GeneratorArgs ==
    { Args(n, nt, m, mt, bs, hs, p, q, beads, MaxIterations, HC_TOLERANCE_M,
           HC_TOLERANCE_LPM, 5) :
        n \in BranchCountChoices, nt \in TypeChoices,
        m \in HeadCountChoices, mt \in TypeChoices,
        bs \in BranchSpacingChoices, hs \in HeadSpacingChoices,
        p \in PressureChoices, q \in RawFlowChoices, beads \in BeadCountChoices }

InitGen == \E a \in GeneratorArgs : InitWith(a)

NextGen ==
    \/ GenerateGridNetwork
    \/ GenerateDynamicSystem

SpecGen == InitGen /\ [][NextGen]_vars

\* ------------------------------------------------------------------------
\*  properties of solve_hardy_cross
\* ------------------------------------------------------------------------

\* solve_hardy_cross has returned
Returned == hc_result # NULL

\* C1: converged is true only if, in the final iteration, the maximum loop
\* imbalance was below tolerance_m and the maximum flow correction below
\* tolerance_lpm; in particular a run that used up its iterations without
\* both holding returns converged = false.
C1_ConvergedNeedsBothCriteria ==
    Returned =>
        (hc_result.converged =>
            /\ hc_result.max_imbalance_m < args.tolerance_m
            /\ hc_result.max_delta_Q_lpm < args.tolerance_lpm)

\* C2: once the solver has converged, at every node the inflow (with the
\* supply at the inlet) and the outflow differ by less than tolerance_lpm.
C2_NodeMassBalance ==
    (pc = "done" /\ result.hc_converged) =>
        \A k \in 1..Len(result.node_data) :
            Abs(result.node_data[k].balance_lpm) < args.tolerance_lpm

\* C3: when converged is true, the signed head-loss sum of every loop,
\* recomputed from the flows the solver left in the pipes, is below
\* tolerance_m in absolute value.
C3_LoopEnergyBalance ==
    (Returned /\ hc_result.converged) =>
        \A k \in 1..Len(network.loops) :
            Abs(LoopSums(network.pipes, network.loops[k]).sum_hf) < args.tolerance_m

\* C4: the result never has converged = true together with diverged = true.
C4_ConvergedExcludesDiverged ==
    Returned => ~(hc_result.converged /\ hc_result.diverged)

\* h[k] exceeds 1.01 times h[k - 1]
Increased(h, k) == k >= 2 /\ h[k] - h[k - 1] > h[k - 1] \div 100

\* the step that ends an iteration: it is the one that extends the history
EndsIteration == Len(hc'.imbalance_history) = Len(hc.imbalance_history) + 1

\* C5: the counter goes up by one in an iteration whose maximum imbalance
\* exceeds 1.01 times that of the iteration before and back to zero in any
\* other; the solver aborts with diverged = true exactly when the counter
\* reaches 3, so a returned diverged is true exactly when the last three
\* iterations each increased.
C5_DivergenceGuard ==
    /\ [][EndsIteration =>
            /\ hc'.diverge_count =
                    IF Increased(hc'.imbalance_history, Len(hc'.imbalance_history))
                    THEN hc.diverge_count + 1 ELSE 0
            /\ hc'.diverged <=> (hc'.diverge_count = 3)
            /\ hc'.diverged => pc' = "hc_return"]_vars
    /\ [](Returned =>
            LET h == hc_result.imbalance_history
                n == Len(h)
            IN  hc_result.diverged <=>
                    (Increased(h, n) /\ Increased(h, n - 1) /\ Increased(h, n - 2)))

\* a run aborted by the divergence guard, an earlier iteration not having increased
C5_Witness ==
    /\ Returned /\ hc_result.diverged
    /\ \E k \in 2..Len(hc_result.imbalance_history) :
            ~Increased(hc_result.imbalance_history, k)

\* last element of a list
Last(l) == l[Len(l)]

\* What is left to do, as a number that every step lowers: the phases still
\* to come, and within the solver the iterations and loops still allowed,
\* within the traversal the nodes still to leave the queue.
InSolver == pc \in {"hc_for", "hc_loops"}

SolverRank ==
    LET L == Len(network.loops)
    IN  (args.max_iterations - hc.iteration) * (L + 2)
        + (IF pc = "hc_for" THEN L + 1 ELSE L - hc.loop_idx)

TraversalRank == 2 * (args.num_branches + 1) - Len(bfs.popped) + 1

RankBase == (args.max_iterations + 1) * (args.num_branches + 2)
            + 2 * (args.num_branches + 1) + 2

Rank ==
    IF pc = "start" THEN 6 * RankBase
    ELSE IF pc = "generated" THEN 5 * RankBase
    ELSE IF InSolver THEN 4 * RankBase + SolverRank
    ELSE IF pc = "hc_return" THEN 3 * RankBase
    ELSE IF pc = "solved" THEN 2 * RankBase
    ELSE IF pc = "bfs" THEN RankBase + TraversalRank
    ELSE 0

\* the guard of some step holds
CanStep ==
    \/ pc \in {"start", "generated", "hc_for", "hc_return", "solved", "bfs"}
    \/ pc = "hc_loops" /\ hc.loop_idx <= Len(network.loops)

\* C6 as stated: the solver returns after at most max_iterations iterations,
\* iterations is the length of both histories, and max_imbalance_m and
\* max_delta_Q_lpm are the last entries of the histories.
C6_LastEntriesAlways ==
    /\ [][InSolver => Rank' < Rank]_vars
    /\ [](InSolver => (SolverRank >= 0 /\ CanStep))
    /\ [](Len(hc.imbalance_history) <= args.max_iterations)
    /\ [](Returned =>
            /\ hc_result.iterations <= args.max_iterations
            /\ hc_result.iterations = Len(hc_result.imbalance_history)
            /\ hc_result.iterations = Len(hc_result.delta_Q_history)
            /\ hc_result.imbalance_history # << >>
            /\ hc_result.delta_Q_history # << >>
            /\ hc_result.max_imbalance_m = Last(hc_result.imbalance_history)
            /\ hc_result.max_delta_Q_lpm = Last(hc_result.delta_Q_history))

\* C6, amended: the solver returns after at most max_iterations iterations
\* (each of its steps lowers what is left of the iterations and loops allowed,
\* and it is never stuck) and iterations is the length of both histories; when
\* at least one iteration ran, max_imbalance_m and max_delta_Q_lpm are the
\* last entries of the histories; when none ran the histories are empty and
\* both are infinite.
C6_TerminatesWithHistories ==
    /\ [][InSolver => Rank' < Rank]_vars
    /\ [](InSolver => (SolverRank >= 0 /\ CanStep))
    /\ [](Len(hc.imbalance_history) <= args.max_iterations)
    /\ [](Returned =>
            /\ hc_result.iterations <= args.max_iterations
            /\ hc_result.iterations = Len(hc_result.imbalance_history)
            /\ hc_result.iterations = Len(hc_result.delta_Q_history)
            /\ IF hc_result.iterations >= 1
               THEN /\ hc_result.max_imbalance_m = Last(hc_result.imbalance_history)
                    /\ hc_result.max_delta_Q_lpm = Last(hc_result.delta_Q_history)
               ELSE /\ hc_result.max_imbalance_m = INF
                    /\ hc_result.max_delta_Q_lpm = INF)

\* a run that used every iteration it was allowed, several of them
C6_Witness ==
    /\ Returned
    /\ hc_result.iterations = args.max_iterations
    /\ hc_result.iterations >= 2
    /\ hc_result.max_imbalance_m = Last(hc_result.imbalance_history)

\* ------------------------------------------------------------------------
\*  properties of calculate_grid_pressures and run_grid_system
\* ------------------------------------------------------------------------

\* the ids of the 2(n+1) nodes of a grid of n branches
AllNodeIds == 0..(2 * (args.num_branches + 1) - 1)

NoDuplicates(l) == \A i, j \in 1..Len(l) : i # j => l[i] # l[j]

\* C8: the traversal starts at the inlet with the inlet pressure, no node
\* leaves the queue twice or is assigned a pressure twice, and when the
\* traversal is over every one of the 2(n+1) nodes has left the queue once
\* and has been assigned a pressure once.
C8_BfsVisitsEachNodeOnce ==
    /\ NoDuplicates(bfs.popped)
    /\ NoDuplicates(bfs.assigned)
    /\ pc \in {"bfs", "done"} =>
            /\ bfs.assigned[1] = network.inlet_node_id
            /\ bfs.node_pressures[network.inlet_node_id] = network.inlet_pressure_mpa
            /\ DOMAIN bfs.node_pressures = bfs.visited
    /\ pc = "done" =>
            /\ Len(bfs.popped) = 2 * (args.num_branches + 1)
            /\ {bfs.popped[k] : k \in 1..Len(bfs.popped)} = AllNodeIds
            /\ Len(bfs.assigned) = 2 * (args.num_branches + 1)
            /\ {bfs.assigned[k] : k \in 1..Len(bfs.assigned)} = AllNodeIds
            /\ DOMAIN bfs.node_pressures = AllNodeIds

\* the traversal of the largest grid is over
C8_Witness ==
    /\ pc = "done"
    /\ args.num_branches = MaxBranches
    /\ Len(bfs.popped) = 2 * (MaxBranches + 1)

\* ------------------------------------------------------------------------
\*  properties of the generators
\* ------------------------------------------------------------------------

PipesOfType(t) == {k \in 1..Len(network.pipes) : network.pipes[k].pipe_type = t}

\* the node with the given id
NodeWithId(nid) ==
    network.nodes[CHOOSE k \in 1..Len(network.nodes) : network.nodes[k].id = nid]

\* C9: a grid of n branches has exactly 2(n+1) nodes, exactly 3n+2 pipes (n
\* cm_top, n cm_bot, n branch with heads_per_branch junctions each, 2
\* connectors), branch b running from the TOP node of column b+1 to the BOTTOM
\* node of column b+1, and exactly n loops, each of 4 pipe ids and 4 directions.
C9_GridShape ==
    network # NULL =>
        LET n == args.num_branches
        IN  /\ Len(network.nodes) = 2 * (n + 1)
            /\ {network.nodes[k].id : k \in 1..Len(network.nodes)} = 0..(2 * (n + 1) - 1)
            /\ \A r \in {0, 1}, c \in 0..n :
                    \E k \in 1..Len(network.nodes) :
                        network.nodes[k].row = r /\ network.nodes[k].col = c
            /\ Len(network.pipes) = 3 * n + 2
            /\ {network.pipes[k].id : k \in 1..Len(network.pipes)} = 0..(3 * n + 1)
            /\ Cardinality(PipesOfType("cm_top")) = n
            /\ Cardinality(PipesOfType("cm_bot")) = n
            /\ Cardinality(PipesOfType("branch")) = n
            /\ Cardinality(PipesOfType("connector")) = 2
            /\ \A k \in PipesOfType("branch") :
                    Len(network.pipes[k].junctions) = args.heads_per_branch
            /\ \A b \in 0..(n - 1) :
                    \E k \in PipesOfType("branch") :
                        LET p == network.pipes[k]
                        IN  /\ p.branch_index = b
                            /\ NodeWithId(p.start_node_id).row = 0
                            /\ NodeWithId(p.start_node_id).col = b + 1
                            /\ NodeWithId(p.end_node_id).row = 1
                            /\ NodeWithId(p.end_node_id).col = b + 1
            /\ Len(network.loops) = n
            /\ \A k \in 1..Len(network.loops) :
                    /\ Len(network.loops[k].pipe_ids) = 4
                    /\ Len(network.loops[k].directions) = 4
                    /\ \A j \in 1..4 :
                            /\ network.loops[k].pipe_ids[j] \in 0..(3 * n + 1)
                            /\ network.loops[k].directions[j] \in {1, -1}

\* a grid with a left, an inner and a right loop has been built
C9_Witness ==
    /\ pc = "generated"
    /\ args.num_branches >= 3
    /\ args.num_branches <= MaxBranches
    /\ Len(network.loops) = args.num_branches
    /\ Len(network.pipes) = 3 * args.num_branches + 2

\* the parameters the generators must refuse
InvalidParameters ==
    \/ ~(args.num_branches_type = "int" /\ args.num_branches \in 1..200)
    \/ ~(args.heads_per_branch_type = "int" /\ args.heads_per_branch \in 1..50)
    \/ args.branch_spacing_m <= 0
    \/ args.head_spacing_m <= 0
    \/ args.inlet_pressure_mpa <= 0
    \/ args.total_flow_lpm <= 0

AddLoss(x, y) == IF x >= INF \/ y >= INF THEN INF ELSE x + y
DropBy(p, loss) == IF loss >= INF \/ p <= -INF THEN -INF ELSE p - loss

RECURSIVE SumLoss(_)
SumLoss(s) == IF s = << >> THEN 0 ELSE AddLoss(s[1], SumLoss(Tail(s)))

RECURSIVE RunningDropBy(_, _, _)
RunningDropBy(start, losses, k) ==
    IF k = 0 THEN start ELSE DropBy(RunningDropBy(start, losses, k - 1), losses[k])

\* the flow of every segment taken to be the whole flow of the branch
TreeSegFlow_Undiminished(branch, i) ==
    branch.branch_flow_lpm

\* segment_flow = total_flow - i * head_flow, head_flow = total_flow / n
TreeSegFlow(branch, i) ==
    branch.branch_flow_lpm - i * (branch.branch_flow_lpm \div branch.num_heads)

\* p_major, p_K1, p_K2 and p_weld_beads of segment i, in pressure units
TreeSegmentMpa(l) ==
    [p_major      |-> head_to_mpa(l.major),
     p_K1         |-> head_to_mpa(l.K1),
     p_K2         |-> head_to_mpa(l.K2),
     p_weld_beads |-> SumLoss([j \in 1..Len(l.weld) |-> head_to_mpa(l.weld[j])]),
     n_beads_in_seg |-> Len(l.weld)]

\* total_seg_loss = p_major + p_K1 + p_K2 + p_weld_beads
TotalSegLoss(p) == AddLoss(AddLoss(AddLoss(p.p_major, p.p_K1), p.p_K2), p.p_weld_beads)

\* the dict of one segment in seg_details
TreeSegDetail(branch, i, p, current_p) ==
    LET junc == At(branch.junctions, i)
        seg  == junc.pipe_segment
    IN  [head_number        |-> i + 1,
         pipe_size          |-> seg.nominal_size,
         flow_lpm           |-> RoundTo(TreeSegFlow(branch, i), 10),
         velocity_ms        |-> RoundTo(velocity_from_flow(TreeSegFlow(branch, i),
                                                           seg.inner_diameter_m), 10),
         K1_value           |-> junc.K1_welded,
         weld_beads_in_seg  |-> p.n_beads_in_seg,
         total_seg_loss_mpa |-> IF TotalSegLoss(p) >= INF THEN INF
                                ELSE RoundTo(TotalSegLoss(p), 100),
         pressure_after_mpa |-> IF current_p <= -INF THEN -INF
                                ELSE RoundTo(current_p, 100),
         bead_height_mm     |-> junc.bead_height_mm]

\* the returned profile, the losses of every segment being known
TreeProfileRecord(branch, branch_inlet_pressure_mpa, K3_loss, segs, pressures) ==
    [positions             |-> [k \in 1..(branch.num_heads + 1) |-> k - 1],
     pressures_mpa         |-> pressures,
     cumulative_loss_mpa   |-> [k \in 1..Len(pressures) |->
                                   IF pressures[k] <= -INF THEN INF
                                   ELSE branch_inlet_pressure_mpa - pressures[k]],
     terminal_pressure_mpa |-> pressures[Len(pressures)],
     K3_loss_mpa           |-> K3_loss,
     segment_details       |->
        [k \in 1..Len(segs) |-> TreeSegDetail(branch, k - 1, segs[k], pressures[k + 1])]]

TreeProfileAfterK3(branch, branch_inlet_pressure_mpa, K3_loss, segs) ==
    TreeProfileRecord(branch, branch_inlet_pressure_mpa, K3_loss, segs,
        <<branch_inlet_pressure_mpa>>
        \o [k \in 1..Len(segs) |->
                RunningDropBy(DropBy(branch_inlet_pressure_mpa, K3_loss),
                              [j \in 1..Len(segs) |-> TotalSegLoss(segs[j])], k)])

\* _calculate_branch_profile
calculate_branch_profile(branch, branch_inlet_pressure_mpa, K3_val) ==
    TreeProfileAfterK3(branch, branch_inlet_pressure_mpa,
        head_to_mpa(minor_loss(K3_val,
            velocity_from_flow(branch.branch_flow_lpm,
                At(branch.junctions, 0).pipe_segment.inner_diameter_m))),
        [k \in 1..Len(branch.junctions) |->
            TreeSegmentMpa(SegmentLosses(branch, k - 1, TreeSegFlow(branch, k - 1)))])

\* cm_seg_loss of cross-main segment i: nothing before the first branch, the
\* major loss and the tee-run loss of the remaining flow after it
CrossMainSegLoss(sys, i) ==
    IF i > 0
    THEN LET cross_main_id_m == get_inner_diameter_m(sys.cross_main_size)
             remaining_flow  == sys.total_flow_lpm
                                - i * (sys.total_flow_lpm \div sys.num_branches)
             V_cm            == velocity_from_flow(remaining_flow, cross_main_id_m)
         IN  head_to_mpa(major_loss(
                 friction_factor(reynolds_number(V_cm, cross_main_id_m), cross_main_id_m),
                 sys.branch_spacing_m, cross_main_id_m, V_cm))
             + head_to_mpa(minor_loss(K_TEE_RUN, V_cm))
    ELSE 0

\* what calculate_dynamic_system returns, the inlet pressures and the
\* profiles of the branches being known
DynamicResult(sys, cross_main_losses, branch_inlet_pressures, branch_profiles, all_terminal_pressures) ==
    [branch_inlet_pressures |-> branch_inlet_pressures,
     branch_profiles        |-> branch_profiles,
     cross_main_losses      |-> cross_main_losses,
     cross_main_cumulative  |-> SeqSum(cross_main_losses),
     worst_branch_index     |-> WorstOfTree(all_terminal_pressures).worst_idx,
     worst_terminal_mpa     |-> WorstOfTree(all_terminal_pressures).worst_terminal,
     all_terminal_pressures |-> all_terminal_pressures,
     total_heads            |-> sys.num_branches * sys.heads_per_branch,
     cross_main_size        |-> sys.cross_main_size]

DynamicProfiles(sys, K3_val, cross_main_losses, branch_inlet_pressures) ==
    [k \in 1..sys.num_branches |->
        calculate_branch_profile(sys.branches[k], branch_inlet_pressures[k], K3_val)]

DynamicAfterCrossMain(sys, cross_main_losses, branch_inlet_pressures, branch_profiles) ==
    DynamicResult(sys, cross_main_losses, branch_inlet_pressures, branch_profiles,
        [k \in 1..Len(branch_profiles) |-> branch_profiles[k].terminal_pressure_mpa])

DynamicWithLosses(sys, K3_val, cross_main_losses) ==
    LET branch_inlet_pressures ==
            [k \in 1..sys.num_branches |->
                RunningDrop(sys.inlet_pressure_mpa, cross_main_losses, k)]
    IN  DynamicAfterCrossMain(sys, cross_main_losses, branch_inlet_pressures,
            DynamicProfiles(sys, K3_val, cross_main_losses, branch_inlet_pressures))

calculate_dynamic_system(sys, K3_val) ==
    DynamicWithLosses(sys, K3_val,
        [k \in 1..sys.num_branches |-> CrossMainSegLoss(sys, k - 1)])

MIN_TERMINAL_PRESSURE_MPA == 10000000
MAX_TERMINAL_PRESSURE_MPA == 120000000

\* [[h] * heads_per_branch for _ in range(num_branches)]
UniformBeads(num_branches, heads_per_branch, h) ==
    [b \in 1..num_branches |-> [k \in 1..heads_per_branch |-> h]]

\* improvement_pct as the exact fraction num / den it is the float of:
\* (term_B - term_A) / abs(term_A) * 100 when term_A != 0, else 0.0.
\* With term_A = -inf the float is nan, here 0 / 0.
ImprovementPct(term_A, term_B) ==
    IF term_A # 0
    THEN IF term_A <= -INF \/ term_B <= -INF THEN [num |-> 0, den |-> 0]
         ELSE [num |-> (term_B - term_A) * 100, den |-> Abs(term_A)]
    ELSE [num |-> 0, den |-> 1]

IsPositive(x) == x.den > 0 /\ x.num > 0
IsNaN(x) == x.den = 0

\* the systems compare_dynamic_cases generates for Case A and Case B
CaseASystemArgs(a) ==
    [a EXCEPT !.bead_heights_2d = UniformBeads(a.num_branches, a.heads_per_branch,
                                               a.bead_height_existing),
              !.bead_height_for_weld_mm = a.bead_height_existing]

CaseBSystemArgs(a) ==
    [a EXCEPT !.bead_heights_2d = UniformBeads(a.num_branches, a.heads_per_branch,
                                               a.bead_height_new),
              !.beads_per_branch = 0]

\* the dict compare_dynamic_cases returns, both results being known
CompareResult(result_A, result_B) ==
    [system_A        |-> result_A,
     system_B        |-> result_B,
     case_A          |-> At(result_A.branch_profiles, result_A.worst_branch_index),
     case_B          |-> At(result_B.branch_profiles, result_B.worst_branch_index),
     terminal_A_mpa  |-> result_A.worst_terminal_mpa,
     terminal_B_mpa  |-> result_B.worst_terminal_mpa,
     improvement_pct |-> ImprovementPct(result_A.worst_terminal_mpa,
                                        result_B.worst_terminal_mpa),
     pass_fail_A     |-> result_A.worst_terminal_mpa >= MIN_TERMINAL_PRESSURE_MPA,
     pass_fail_B     |-> result_B.worst_terminal_mpa >= MIN_TERMINAL_PRESSURE_MPA,
     worst_branch_A  |-> result_A.worst_branch_index,
     worst_branch_B  |-> result_B.worst_branch_index,
     cross_main_size |-> result_A.cross_main_size,
     total_heads     |-> result_A.total_heads]

\* compare_dynamic_cases with arguments that pass the validation of
\* generate_dynamic_system
compare_dynamic_cases(a) ==
    CompareResult(calculate_dynamic_system(BuildDynamicSystem(CaseASystemArgs(a)), K3),
                  calculate_dynamic_system(BuildDynamicSystem(CaseBSystemArgs(a)), K3))

\* ------------------------------------------------------------------------
\*  the tree calls
\* ------------------------------------------------------------------------

\* 6 and 9 LPM
TreeFlowChoices == {6000, 9000}
\* junction bead heights 0, 1.5 and 3.0 mm, and 13.4 mm, above half the inner
\* diameter of a 25A pipe (13.32 mm)
BLOCKING_BEAD_MM == 1340
BeadHeightChoices == {0, 150, 300, BLOCKING_BEAD_MM}
TreeBeadCountChoices == {0, 1, 2}

\* the arguments of a tree call: those of generate_dynamic_system and the
\* two bead heights of compare_dynamic_cases
TreeCall(n, m, p, q, beads, existing, heights) ==
    [bead_height_existing |-> existing, bead_height_new |-> 0]
    @@ [Args(n, "int", m, "int", DEFAULT_BRANCH_SPACING_M, DEFAULT_HEAD_SPACING_M,
             p, q, beads, 0, 0, 0, 0)
        EXCEPT !.bead_heights_2d = heights]

\* bead_heights_2d of a call: None, the same height everywhere, or 1.5 mm
\* everywhere but at one junction
OneJunctionBeads(n, m, b, h, x) ==
    [i \in 1..n |-> [k \in 1..m |-> IF i = b + 1 /\ k = h + 1 THEN x ELSE 150]]

BeadGridChoices(n, m) ==
    {<< >>}
    \cup { UniformBeads(n, m, x) : x \in BeadHeightChoices }
    \cup { OneJunctionBeads(n, m, b, h, x) :
             b \in 0..(n - 1), h \in 0..(m - 1), x \in {0, 300} }

\* the inlet pressure at which Case A's worst terminal pressure is zero: the
\* pressure lost on the way to Case A's worst head
LossToWorstHead(n, m, q, beads, existing) ==
    LET t == compare_dynamic_cases(
                 TreeCall(n, m, DEFAULT_INLET_PRESSURE_MPA, q, beads, existing, << >>)
             ).terminal_A_mpa
    IN  IF t <= -INF THEN DEFAULT_INLET_PRESSURE_MPA
        ELSE DEFAULT_INLET_PRESSURE_MPA - t

\* calls told apart by the bead heights of compare_dynamic_cases, and calls
\* told apart by the bead_heights_2d of generate_dynamic_system
TreeArgs ==
    UNION { { TreeCall(n, m, p, q, beads, existing, << >>) :
                p \in {DEFAULT_INLET_PRESSURE_MPA,
                       LossToWorstHead(n, m, q, beads, existing)} } :
            n \in 1..MaxBranches, m \in 1..MaxHeads, q \in TreeFlowChoices,
            beads \in TreeBeadCountChoices, existing \in BeadHeightChoices }
    \cup
    UNION { { TreeCall(n, m, DEFAULT_INLET_PRESSURE_MPA, q, beads, 150, heights) :
                heights \in BeadGridChoices(n, m) } :
            n \in 1..MaxBranches, m \in 1..MaxHeads, q \in TreeFlowChoices,
            beads \in TreeBeadCountChoices }

InitTree == \E a \in TreeArgs : InitWith(a)

\* calculate_dynamic_system(system) after generate_dynamic_system returned
CalculateDynamicSystem ==
    /\ pc = "generated_tree"
    /\ result' = calculate_dynamic_system(system, K3)
    /\ pc' = "calculated"
    /\ UNCHANGED <<args, error, network, system, hc, hc_result, bfs, sim, compliance>>

\* compare_dynamic_cases: the first generate_dynamic_system raises
\* ValidationError for arguments that fail the validation
CompareDynamicCases ==
    /\ pc = "start"
    /\ IF validate_dynamic_inputs(args)
       THEN /\ sim' = compare_dynamic_cases(args)
            /\ pc' = "compared"
            /\ error' = error
       ELSE /\ sim' = sim
            /\ pc' = "raised"
            /\ error' = "ValidationError"
    /\ UNCHANGED <<args, network, system, hc, hc_result, bfs, result, compliance>>

\* ------------------------------------------------------------------------
\*  simulation.py: run_variable_sweep
\* ------------------------------------------------------------------------

\* np.arange(start_val, end_val + step_val / 2, step_val).tolist(), step_val > 0;
\* [start_val] when that is empty
SweepValues(start_val, end_val, step_val) ==
    LET twice == 2 * (end_val - start_val) + step_val
        len   == IF twice <= 0 THEN 0 ELSE (twice + 2 * step_val - 1) \div (2 * step_val)
    IN  IF len = 0 THEN <<start_val>>
        ELSE [k \in 1..len |-> start_val + (k - 1) * step_val]

\* kw of one sweep point: the call's arguments with the swept one replaced
SweepKw(a, val) ==
    IF a.sweep_variable = "design_flow" THEN [a EXCEPT !.total_flow_lpm = val]
    ELSE IF a.sweep_variable = "inlet_pressure" THEN [a EXCEPT !.inlet_pressure_mpa = val]
    ELSE IF a.sweep_variable = "bead_height" THEN [a EXCEPT !.bead_height_existing = val]
    ELSE IF a.sweep_variable = "heads_per_branch" THEN [a EXCEPT !.heads_per_branch = val]
    ELSE a

\* t_a, t_b and imp of one sweep point: those of the comparison, or 0.0 each
\* when the comparison raised (except Exception)
SweepPointValues(kw) ==
    IF validate_dynamic_inputs(kw)
    THEN LET res == compare_dynamic_cases(kw)
         IN  [t_a |-> res.terminal_A_mpa, t_b |-> res.terminal_B_mpa,
              imp |-> res.improvement_pct]
    ELSE [t_a |-> 0, t_b |-> 0, imp |-> [num |-> 0, den |-> 1]]

\* the first sweep value whose point failed, None (found = FALSE) without one
RECURSIVE FirstFail(_, _, _)
FirstFail(sweep_values, pass_fail, i) ==
    IF i > Len(sweep_values) THEN [found |-> FALSE, value |-> 0]
    ELSE IF ~pass_fail[i] THEN [found |-> TRUE, value |-> sweep_values[i]]
    ELSE FirstFail(sweep_values, pass_fail, i + 1)

\* a sweep of the tree topology over one of the four design variables
SweepCall(variable, start_val, end_val, step_val, n, m, q, existing) ==
    [sweep_variable |-> variable, start_val |-> start_val, end_val |-> end_val,
     step_val |-> step_val, topology |-> "tree"]
    @@ TreeCall(n, m, DEFAULT_INLET_PRESSURE_MPA, q, 0, existing, << >>)

\* the ranges swept: they start at or below zero, or stay above it
SweepRanges(variable) ==
    IF variable = "design_flow"
    THEN {<<-3000, 6000, 3000>>, <<0, 9000, 3000>>, <<6000, 9000, 3000>>, <<6000, 3000, 3000>>}
    ELSE IF variable = "inlet_pressure"
    THEN {<<0, 100000000, 50000000>>, <<50000000, 150000000, 50000000>>}
    ELSE IF variable = "bead_height"
    THEN {<<0, 300, 150>>, <<150, BLOCKING_BEAD_MM, 1190>>}
    ELSE {<<0, MaxHeads, 1>>, <<1, MaxHeads, 1>>}

SweepVariables == {"design_flow", "inlet_pressure", "bead_height", "heads_per_branch"}

SweepArgs ==
    UNION { { SweepCall(v, r[1], r[2], r[3], n, m, q, existing) : r \in SweepRanges(v) } :
            v \in SweepVariables, n \in 1..2, m \in 1..2, q \in TreeFlowChoices,
            existing \in {150, 300} }

InitSweep == \E a \in SweepArgs : InitWith(a)

\* run_variable_sweep up to its for loop
SweepStart ==
    /\ pc = "start"
    /\ sim' = [sweep_variable  |-> args.sweep_variable,
               sweep_values    |-> SweepValues(args.start_val, args.end_val, args.step_val),
               terminal_A      |-> << >>,
               terminal_B      |-> << >>,
               improvement_pct |-> << >>,
               pass_fail_A     |-> << >>,
               pass_fail_B     |-> << >>,
               critical_A      |-> [found |-> FALSE, value |-> 0],
               critical_B      |-> [found |-> FALSE, value |-> 0]]
    /\ pc' = "sweeping"
    /\ UNCHANGED <<args, error, network, system, hc, hc_result, bfs, result, compliance>>

\* sim with the three values of the next sweep point appended
SweepAppend(s, v) ==
    [s EXCEPT !.terminal_A      = Append(@, v.t_a),
              !.terminal_B      = Append(@, v.t_b),
              !.improvement_pct = Append(@, v.imp),
              !.pass_fail_A     = Append(@, v.t_a >= MIN_TERMINAL_PRESSURE_MPA),
              !.pass_fail_B     = Append(@, v.t_b >= MIN_TERMINAL_PRESSURE_MPA)]

\* one pass of the for loop over sweep_values
SweepPoint ==
    /\ pc = "sweeping"
    /\ Len(sim.terminal_A) < Len(sim.sweep_values)
    /\ sim' = SweepAppend(sim,
                  SweepPointValues(SweepKw(args, sim.sweep_values[Len(sim.terminal_A) + 1])))
    /\ UNCHANGED <<pc, args, error, network, system, hc, hc_result, bfs, result, compliance>>

\* the critical points and the return
SweepReturn ==
    /\ pc = "sweeping"
    /\ Len(sim.terminal_A) = Len(sim.sweep_values)
    /\ sim' = [sim EXCEPT
                 !.critical_A = FirstFail(sim.sweep_values, sim.pass_fail_A, 1),
                 !.critical_B = FirstFail(sim.sweep_values, sim.pass_fail_B, 1)]
    /\ pc' = "returned"
    /\ UNCHANGED <<args, error, network, system, hc, hc_result, bfs, result, compliance>>

NextSweep ==
    \/ SweepStart
    \/ SweepPoint
    \/ SweepReturn

SpecSweep == InitSweep /\ [][NextSweep]_vars

\* ------------------------------------------------------------------------
\*  C11
\* ------------------------------------------------------------------------

\* the sweep points worked through so far
PointsDone == 1..Len(sim.terminal_A)

\* C11: validation errors propagate immediately: when the network solve of a
\* sweep point of run_variable_sweep fails validation, the operation ends with
\* that ValidationError and never returns a numeric result for the invalid
\* point; so every point the sweep holds values for passed validation.
C11_ValidationErrorPropagates ==
    pc \in {"sweeping", "returned"} =>
        \A k \in PointsDone :
            validate_dynamic_inputs(SweepKw(args, sim.sweep_values[k]))

\* ------------------------------------------------------------------------
\*  C12
\* ------------------------------------------------------------------------

\* a junction of the generated system carries the +inf sentinel as its K1
SentinelInSystem(sys) ==
    \E b \in 1..Len(sys.branches) :
        \E k \in 1..Len(sys.branches[b].junctions) :
            sys.branches[b].junctions[k].K1_welded >= INF

\* a solved system used the sentinel: a segment's K1 is +inf, or a pressure
\* of a profile is -inf
SentinelInResult(res) ==
    \E b \in 1..Len(res.branch_profiles) :
        \/ \E k \in 1..Len(res.branch_profiles[b].segment_details) :
               res.branch_profiles[b].segment_details[k].K1_value >= INF
        \/ \E k \in 1..Len(res.branch_profiles[b].pressures_mpa) :
               res.branch_profiles[b].pressures_mpa[k] <= -INF

\* C12: a bead height of at least half the inner diameter makes
\* k_welded_fitting return the +inf sentinel, and the builders and solvers
\* treat it as a configuration error: no generated system carries the
\* sentinel and no solved system fed it into a loss or a pressure.
C12_SentinelIsConfigurationError ==
    /\ pc = "generated_tree" => ~SentinelInSystem(system)
    /\ pc = "calculated" => ~SentinelInResult(result)
    /\ pc = "compared" => ~SentinelInResult(sim.system_A)

\* ------------------------------------------------------------------------
\*  C13
\* ------------------------------------------------------------------------

\* terminal pressures in any order: -inf, negative, zero, equal and distinct
\* positive values
TerminalSamples == {-INF, -2500, 0, 2500, DEFAULT_INLET_PRESSURE_MPA}

TerminalLists ==
    UNION { [1..n -> TerminalSamples] : n \in 1..MaxBranches }

InitWorst ==
    /\ \E l \in TerminalLists : args = [all_terminal_pressures |-> l]
    /\ pc = "start"
    /\ error = "none"
    /\ network = NULL
    /\ system = NULL
    /\ hc = NoHC
    /\ hc_result = NULL
    /\ bfs = NoBFS
    /\ result = NULL
    /\ compliance = NULL
    /\ sim = NULL

\* step 3 of calculate_dynamic_system on a list of terminal pressures
WorstOfDynamicSystem ==
    /\ pc = "start"
    /\ result' = [topology               |-> "tree",
                  all_terminal_pressures |-> args.all_terminal_pressures,
                  worst_branch_index     |-> WorstOfTree(args.all_terminal_pressures).worst_idx,
                  worst_terminal_mpa     |-> WorstOfTree(args.all_terminal_pressures).worst_terminal]
    /\ pc' = "worst_found"
    /\ UNCHANGED <<args, error, network, system, hc, hc_result, bfs, sim, compliance>>

\* step 4 of calculate_grid_pressures on a list of terminal pressures
WorstOfGridPressures ==
    /\ pc = "start"
    /\ result' = [topology               |-> "grid",
                  all_terminal_pressures |-> args.all_terminal_pressures,
                  worst_branch_index     |-> WorstOfGrid(args.all_terminal_pressures).worst_idx,
                  worst_terminal_mpa     |-> WorstOfGrid(args.all_terminal_pressures).worst_terminal]
    /\ pc' = "worst_found"
    /\ UNCHANGED <<args, error, network, system, hc, hc_result, bfs, sim, compliance>>

NextWorst ==
    \/ WorstOfDynamicSystem
    \/ WorstOfGridPressures

SpecWorst == InitWorst /\ [][NextWorst]_vars

SameBeadsOnEveryBranch(sys) ==
    \A b \in 1..Len(sys.branches) :
        /\ sys.branches[b].weld_beads = sys.branches[1].weld_beads
        /\ \A k \in 1..Len(sys.branches[b].junctions) :
               sys.branches[b].junctions[k].bead_height_mm
                   = sys.branches[1].junctions[k].bead_height_mm

\* C14: in a tree network whose branches all have the same bead heights and
\* weld beads, the terminal pressure does not increase with the branch
\* index, and the worst branch calculate_dynamic_system reports is the
\* farthest one, index n - 1.
C14_WorstBranchIsFarthest ==
    (pc = "calculated" /\ SameBeadsOnEveryBranch(system)) =>
        /\ \A k \in 1..(Len(result.all_terminal_pressures) - 1) :
               result.all_terminal_pressures[k + 1] <= result.all_terminal_pressures[k]
        /\ result.worst_branch_index = system.num_branches - 1

\* ------------------------------------------------------------------------
\*  C15
\* ------------------------------------------------------------------------

\* bead heights a junction is raised to: 1.5, 3.0 and 4.5 mm
RaisedBeadChoices == {150, 300, 450}

\* the call's bead_heights_2d with the bead of junction h of branch b set to x
RaisedBeads(a, b, h, x) ==
    [i \in 1..a.num_branches |->
        [k \in 1..a.heads_per_branch |->
            IF i = b + 1 /\ k = h + 1 THEN x ELSE BeadHeightAt(a, i - 1, k - 1)]]

\* the terminal pressure of branch b once junction h of it carries bead x:
\* the cross-main losses before the branch do not depend on the beads
TerminalAfterRaise(a, b, h, x) ==
    calculate_branch_profile(
        At(BuildDynamicSystem([a EXCEPT !.bead_heights_2d = RaisedBeads(a, b, h, x)]).branches, b),
        At(result.branch_inlet_pressures, b), K3).terminal_pressure_mpa

\* raising the bead of junction h of branch b to x, below half the inner
\* diameter, raises the junction's K1 and lowers the branch's terminal pressure
RaiseLowersTerminal(b, h, x) ==
    LET junc == At(At(system.branches, b).junctions, h)
    IN  (x > junc.bead_height_mm /\ 2 * x < PIPE_DIMENSIONS[junc.pipe_segment.nominal_size]) =>
            /\ k_welded_fitting(x, PIPE_DIMENSIONS[junc.pipe_segment.nominal_size], K1_BASE)
                   > junc.K1_welded
            /\ TerminalAfterRaise(args, b, h, x) < At(result.all_terminal_pressures, b)

\* Case A's bead is above zero and below half the inner diameter of every pipe
CaseABeadInRange ==
    /\ args.bead_height_existing > 0
    /\ 2 * args.bead_height_existing < PIPE_DIMENSIONS["25A"]

NoWeldBeads(res) ==
    \A b \in 1..Len(res.branch_profiles) :
        \A k \in 1..Len(res.branch_profiles[b].segment_details) :
            res.branch_profiles[b].segment_details[k].weld_beads_in_seg = 0

\* Case B's worst terminal pressure for the same call without weld beads and
\* without fitting beads in Case A
BaselineTerminalB(a) ==
    calculate_dynamic_system(
        BuildDynamicSystem(CaseBSystemArgs(
            [a EXCEPT !.beads_per_branch = 0, !.bead_height_existing = 0])),
        K3).worst_terminal_mpa

\* Case A's worst terminal pressure for the same call without weld beads
TerminalAWithoutWeldBeads(a) ==
    calculate_dynamic_system(
        BuildDynamicSystem(CaseASystemArgs([a EXCEPT !.beads_per_branch = 0])),
        K3).worst_terminal_mpa

\* C16: compare_dynamic_cases always builds Case B with zero weld beads: its
\* worst terminal pressure is the same for every beads_per_branch and every
\* bead_height_existing, while Case A's worst terminal pressure with
\* beads_per_branch > 0 is strictly lower than with beads_per_branch = 0.
C16_CaseBIgnoresWeldBeads ==
    pc = "compared" =>
        /\ NoWeldBeads(sim.system_B)
        /\ sim.terminal_B_mpa = BaselineTerminalB(args)
        /\ args.beads_per_branch > 0 =>
               sim.terminal_A_mpa < TerminalAWithoutWeldBeads(args)

\* ------------------------------------------------------------------------
\*  pipe_network.py: check_nfpc_compliance
\* ------------------------------------------------------------------------

\* 6 m/s and 10 m/s in the velocity unit
MAX_VELOCITY_BRANCH_MS == 600000
MAX_VELOCITY_OTHER_MS == 1000000

RECURSIVE Flatten(_)
Flatten(ss) == IF ss = << >> THEN << >> ELSE ss[1] \o Flatten(Tail(ss))

\* the entries of one branch: a violation for each segment whose recorded
\* velocity is above the branch limit, in the order of the segments
SegmentViolations(b_idx, seg_details) ==
    Flatten([k \in 1..Len(seg_details) |->
        IF seg_details[k].velocity_ms > MAX_VELOCITY_BRANCH_MS
        THEN << [branch      |-> b_idx,
                 head        |-> seg_details[k].head_number,
                 pipe_size   |-> seg_details[k].pipe_size,
                 velocity_ms |-> seg_details[k].velocity_ms,
                 limit_ms    |-> MAX_VELOCITY_BRANCH_MS,
                 pipe_type   |-> "branch"] >>
        ELSE << >>])

BranchVelocityViolations(system_result) ==
    Flatten([b \in 1..Len(system_result.branch_profiles) |->
        SegmentViolations(b - 1, system_result.branch_profiles[b].segment_details)])

\* total_branch_flow: the flow of the first segment of every branch that has
\* segments
TotalBranchFlow(branch_profiles) ==
    SeqSum([b \in 1..Len(branch_profiles) |->
        IF branch_profiles[b].segment_details # << >>
        THEN branch_profiles[b].segment_details[1].flow_lpm
        ELSE 0])

\* cm_velocity = total_branch_flow / 60000 / cm_area exceeds the limit: in
\* these units total_branch_flow * 100000 > limit * 6 * area, both sides
\* divided by 100000
CrossMainTooFast(total_branch_flow, cm_area) ==
    total_branch_flow > (MAX_VELOCITY_OTHER_MS \div 100000) * 6 * cm_area

\* cm_velocity in mm/s, rounded to 0.01 m/s
CrossMainVelocity(total_branch_flow, cm_area) ==
    RoundTo((total_branch_flow * 500) \div (3 * cm_area), 10)

CrossMainVelocityViolations(system_result) ==
    LET cross_main_size   == system_result.cross_main_size
        cm_area           == PipeArea(PIPE_DIMENSIONS[cross_main_size])
        total_branch_flow == TotalBranchFlow(system_result.branch_profiles)
    IN  IF /\ cross_main_size \in DOMAIN PIPE_DIMENSIONS
           /\ system_result.total_heads > 0
           /\ total_branch_flow > 0 /\ cm_area > 0
           /\ CrossMainTooFast(total_branch_flow, cm_area)
        THEN << [branch      |-> -1,
                 head        |-> 0,
                 pipe_size   |-> cross_main_size,
                 velocity_ms |-> CrossMainVelocity(total_branch_flow, cm_area),
                 limit_ms    |-> MAX_VELOCITY_OTHER_MS,
                 pipe_type   |-> "cross_main"] >>
        ELSE << >>

\* round(p, 4)
RoundPressure(p) == IF p <= -INF THEN -INF ELSE RoundTo(p, 10000)

\* a variant that only looks for pressures below the minimum
PressureViolations_UnderOnly(all_terminals) ==
    Flatten([b \in 1..Len(all_terminals) |->
        IF all_terminals[b] < MIN_TERMINAL_PRESSURE_MPA
        THEN << [branch |-> b - 1, type |-> "under",
                 pressure_mpa |-> RoundPressure(all_terminals[b]),
                 limit_mpa |-> MIN_TERMINAL_PRESSURE_MPA] >>
        ELSE << >>])

PressureViolations(all_terminals) ==
    Flatten([b \in 1..Len(all_terminals) |->
        IF all_terminals[b] < MIN_TERMINAL_PRESSURE_MPA
        THEN << [branch |-> b - 1, type |-> "under",
                 pressure_mpa |-> RoundPressure(all_terminals[b]),
                 limit_mpa |-> MIN_TERMINAL_PRESSURE_MPA] >>
        ELSE IF all_terminals[b] > MAX_TERMINAL_PRESSURE_MPA
        THEN << [branch |-> b - 1, type |-> "over",
                 pressure_mpa |-> RoundPressure(all_terminals[b]),
                 limit_mpa |-> MAX_TERMINAL_PRESSURE_MPA] >>
        ELSE << >>])

NfpcResult(velocity_violations, pressure_violations) ==
    [velocity_violations |-> velocity_violations,
     pressure_violations |-> pressure_violations,
     is_compliant        |-> Len(velocity_violations) = 0 /\ Len(pressure_violations) = 0]

check_nfpc_compliance(system_result) ==
    NfpcResult(BranchVelocityViolations(system_result)
                   \o CrossMainVelocityViolations(system_result),
               PressureViolations(system_result.all_terminal_pressures))

\* check_nfpc_compliance on the result of a solver
CheckNfpcCompliance ==
    /\ pc = "calculated"
    /\ compliance' = check_nfpc_compliance(result)
    /\ pc' = "checked"
    /\ UNCHANGED <<args, error, network, system, hc, hc_result, bfs, result, sim>>

\* the tree calls: generate, calculate and check, or compare
NextTree ==
    \/ GenerateDynamicSystem
    \/ CalculateDynamicSystem
    \/ CheckNfpcCompliance
    \/ CompareDynamicCases

SpecTree == InitTree /\ [][NextTree]_vars

\* results to check: one or two branches of up to two segments each, with
\* recorded velocities at and above the branch limit, first-segment flows
\* of 0, 950 and 1500 LPM, and terminal pressures below, at, between and
\* above the two limits
VelocitySamples == {0, MAX_VELOCITY_BRANCH_MS, MAX_VELOCITY_BRANCH_MS + 10}
FlowSamples == {0, 950000, 1500000}
NfpcTerminalSamples ==
    {-INF, MIN_TERMINAL_PRESSURE_MPA - 1, MIN_TERMINAL_PRESSURE_MPA,
     MAX_TERMINAL_PRESSURE_MPA, MAX_TERMINAL_PRESSURE_MPA + 1}

SampleSegment(k, v, q) ==
    [head_number |-> k, pipe_size |-> "25A", flow_lpm |-> q, velocity_ms |-> v]

SampleSegmentLists ==
    {<< >>}
    \cup { <<SampleSegment(1, v, q)>> : v \in VelocitySamples, q \in FlowSamples }
    \cup { <<SampleSegment(1, v, q), SampleSegment(2, w, q \div 2)>> :
             v \in VelocitySamples, w \in VelocitySamples, q \in FlowSamples }

SampleProfiles ==
    { [segment_details |-> segs, terminal_pressure_mpa |-> p] :
        segs \in SampleSegmentLists, p \in NfpcTerminalSamples }

SampleResults ==
    { [branch_profiles        |-> profiles,
       all_terminal_pressures |->
           [b \in 1..Len(profiles) |-> profiles[b].terminal_pressure_mpa],
       total_heads            |-> 2 * Len(profiles),
       cross_main_size        |-> size] :
        profiles \in UNION { [1..n -> SampleProfiles] : n \in {1, 2} },
        size \in {"65A", "80A"} }

InitNfpc ==
    /\ \E r \in SampleResults : result = r
    /\ pc = "calculated"
    /\ args = NULL
    /\ error = "none"
    /\ network = NULL
    /\ system = NULL
    /\ hc = NoHC
    /\ hc_result = NULL
    /\ bfs = NoBFS
    /\ compliance = NULL
    /\ sim = NULL

NextNfpc == CheckNfpcCompliance

SpecNfpc == InitNfpc /\ [][NextNfpc]_vars

\* ------------------------------------------------------------------------
\*  C17
\* ------------------------------------------------------------------------

\* how many entries of a list satisfy P
CountOf(list, P(_)) == Cardinality({i \in 1..Len(list) : P(list[i])})

\* the segments of the checked result whose velocity is above the branch limit
FastSegments ==
    UNION { { <<b, k>> : k \in { j \in 1..Len(result.branch_profiles[b].segment_details) :
                                   result.branch_profiles[b].segment_details[j].velocity_ms
                                       > MAX_VELOCITY_BRANCH_MS } } :
            b \in 1..Len(result.branch_profiles) }

\* the cross-main velocity reconstructed from the first-segment flows of the
\* branches is above the cross-main limit
CrossMainExceeds ==
    TotalBranchFlow(result.branch_profiles)
        > 6 * PipeArea(PIPE_DIMENSIONS[result.cross_main_size])
            * (MAX_VELOCITY_OTHER_MS \div 100000)

\* the branches whose terminal pressure is outside the two limits
BranchesOutOfRange ==
    { b \in 1..Len(result.all_terminal_pressures) :
        \/ result.all_terminal_pressures[b] < MIN_TERMINAL_PRESSURE_MPA
        \/ result.all_terminal_pressures[b] > MAX_TERMINAL_PRESSURE_MPA }

\* C17: check_nfpc_compliance returns every violation: one velocity
\* violation for each branch segment whose velocity is above the branch
\* limit, one for the cross main when its reconstructed velocity is above
\* the cross-main limit, and exactly one pressure violation for each branch
\* whose terminal pressure is below the minimum or above the maximum;
\* is_compliant holds exactly when both lists are empty.
C17_EveryViolationReported ==
    pc = "checked" =>
        /\ \A b \in 1..Len(result.branch_profiles) :
               \A k \in 1..Len(result.branch_profiles[b].segment_details) :
                   CountOf(compliance.velocity_violations,
                           LAMBDA v : v.pipe_type = "branch" /\ v.branch = b - 1
                                      /\ v.head = k)
                       = IF <<b, k>> \in FastSegments THEN 1 ELSE 0
        /\ CountOf(compliance.velocity_violations, LAMBDA v : v.pipe_type = "cross_main")
               = IF CrossMainExceeds THEN 1 ELSE 0
        /\ Len(compliance.velocity_violations)
               = Cardinality(FastSegments) + (IF CrossMainExceeds THEN 1 ELSE 0)
        /\ \A b \in 1..Len(result.all_terminal_pressures) :
               /\ CountOf(compliance.pressure_violations, LAMBDA p : p.branch = b - 1)
                      = IF b \in BranchesOutOfRange THEN 1 ELSE 0
               /\ CountOf(compliance.pressure_violations,
                          LAMBDA p : p.branch = b - 1 /\ p.type = "under")
                      = IF result.all_terminal_pressures[b] < MIN_TERMINAL_PRESSURE_MPA
                        THEN 1 ELSE 0
        /\ Len(compliance.pressure_violations) = Cardinality(BranchesOutOfRange)
        /\ compliance.is_compliant
               <=> (compliance.velocity_violations = << >>
                    /\ compliance.pressure_violations = << >>)

\* a result with two fast segments on one branch, a cross main above its
\* limit, one branch below the minimum pressure and one above the maximum
C17_Witness ==
    /\ pc = "checked"
    /\ Cardinality(FastSegments) >= 2
    /\ CrossMainExceeds
    /\ \E b \in BranchesOutOfRange :
           result.all_terminal_pressures[b] < MIN_TERMINAL_PRESSURE_MPA
    /\ \E b \in BranchesOutOfRange :
           result.all_terminal_pressures[b] > MAX_TERMINAL_PRESSURE_MPA
    /\ Len(compliance.velocity_violations) >= 3
    /\ Len(compliance.pressure_violations) = 2
    /\ ~compliance.is_compliant

\* ------------------------------------------------------------------------
\*  C18
\* ------------------------------------------------------------------------

\* head counts from 1 up to this one are sized
MaxHeadCount == 60

InitSizes ==
    /\ \E n \in 1..MaxHeadCount : args = [head_count |-> n]
    /\ pc = "start"
    /\ error = "none"
    /\ network = NULL
    /\ system = NULL
    /\ hc = NoHC
    /\ hc_result = NULL
    /\ bfs = NoBFS
    /\ result = NULL
    /\ compliance = NULL
    /\ sim = NULL

\* auto_pipe_size(head_count)
AutoPipeSize ==
    /\ pc = "start"
    /\ result' = [function |-> "auto_pipe_size", size |-> auto_pipe_size(args.head_count)]
    /\ pc' = "sized"
    /\ UNCHANGED <<args, error, network, system, hc, hc_result, bfs, sim, compliance>>

\* auto_cross_main_size(head_count)
AutoCrossMainSize ==
    /\ pc = "start"
    /\ result' = [function |-> "auto_cross_main_size",
                  size     |-> auto_cross_main_size(args.head_count)]
    /\ pc' = "sized"
    /\ UNCHANGED <<args, error, network, system, hc, hc_result, bfs, sim, compliance>>

NextSizes ==
    \/ AutoPipeSize
    \/ AutoCrossMainSize

SpecSizes == InitSizes /\ [][NextSizes]_vars

\* the tiers of the two sizing rules
PipeTier(n) ==
    IF n \in 1..2 THEN "25A"
    ELSE IF n = 3 THEN "32A"
    ELSE IF n \in 4..5 THEN "40A"
    ELSE IF n \in 6..11 THEN "50A"
    ELSE "65A"

CrossMainTier(n) ==
    IF n < 20 THEN "65A"
    ELSE IF n \in 20..39 THEN "80A"
    ELSE "100A"

\* C18: for every integer head count of at least 1, auto_pipe_size returns
\* the tier of {1-2: 25A, 3: 32A, 4-5: 40A, 6-11: 50A, 12 and more: 65A} and
\* auto_cross_main_size the tier of {below 20: 65A, 20-39: 80A, 40 and more:
\* 100A}; neither size decreases when the head count grows.
C18_SizingTiers ==
    pc = "sized" =>
        /\ result.function = "auto_pipe_size" =>
               /\ result.size = PipeTier(args.head_count)
               /\ \A k \in 1..args.head_count :
                      PIPE_DIMENSIONS[auto_pipe_size(k)] <= PIPE_DIMENSIONS[result.size]
        /\ result.function = "auto_cross_main_size" =>
               /\ result.size = CrossMainTier(args.head_count)
               /\ \A k \in 1..args.head_count :
                      PIPE_DIMENSIONS[auto_cross_main_size(k)] <= PIPE_DIMENSIONS[result.size]

\* the first head count of the largest branch tier has been sized
C18_Witness ==
    /\ pc = "sized"
    /\ args.head_count = 12
    /\ result.function = "auto_pipe_size"
    /\ result.size = "65A"

\* ------------------------------------------------------------------------
\*  pipe_network.py: generate_branch_beads with a random generator
\* ------------------------------------------------------------------------

\* a variant that loses the last bead
generate_branch_beads_rng_DropLast(heads_per_branch, head_spacing_m, num_beads, bead_height_mm, pipe_sizes, K1_base, positions) ==
    IF num_beads <= 1 THEN << >>
    ELSE [k \in 1..(num_beads - 1) |->
            LET seg_idx == Min(positions[k] \div head_spacing_m, heads_per_branch - 1)
            IN  [segment_index  |-> seg_idx,
                 bead_height_mm |-> bead_height_mm,
                 K_value        |-> k_welded_fitting(bead_height_mm,
                                        PIPE_DIMENSIONS[pipe_sizes[seg_idx + 1]], K1_base)]]

\* rng given: positions is sorted(rng.uniform(0, total_length, size=num_beads)),
\* num_beads draws in mm; int(pos / head_spacing_m) is the floor of the quotient
generate_branch_beads_rng(heads_per_branch, head_spacing_m, num_beads, bead_height_mm, pipe_sizes, K1_base, positions) ==
    IF num_beads <= 0 THEN << >>
    ELSE [k \in 1..num_beads |->
            LET seg_idx == Min(positions[k] \div head_spacing_m, heads_per_branch - 1)
            IN  [segment_index  |-> seg_idx,
                 bead_height_mm |-> bead_height_mm,
                 K_value        |-> k_welded_fitting(bead_height_mm,
                                        PIPE_DIMENSIONS[pipe_sizes[seg_idx + 1]], K1_base)]]

\* the numbers of beads asked for
BeadNumberChoices == {-1, 0, 1, 2, 3}

\* what rng.uniform(0, total_length) may draw: the start of the branch, the
\* last point of the first segment, the first point of the second one, the
\* last point of the branch, and total_length itself, which the rounding of
\* the draw can return
DrawChoices(total_length, head_spacing_m) ==
    {0, head_spacing_m - 1, head_spacing_m, total_length - 1, total_length}

\* the sorted lists of num_beads draws
SortedDraws(total_length, head_spacing_m, num_beads) ==
    IF num_beads <= 0 THEN {<< >>}
    ELSE { p \in [1..num_beads -> DrawChoices(total_length, head_spacing_m)] :
             \A k \in 1..(num_beads - 1) : p[k] <= p[k + 1] }

\* a call of generate_branch_beads for the only branch of a tree, without a
\* generator or with the draws of one
BeadCall(m, q, num_beads, rng, positions) ==
    [num_beads |-> num_beads, rng |-> rng, positions |-> positions]
    @@ TreeCall(1, m, DEFAULT_INLET_PRESSURE_MPA, q, 0, 150, << >>)

BeadArgs ==
    UNION { { BeadCall(m, q, num_beads, "None", << >>) } \cup
            { BeadCall(m, q, num_beads, "Generator", p) :
                p \in SortedDraws(m * DEFAULT_HEAD_SPACING_M, DEFAULT_HEAD_SPACING_M,
                                  num_beads) } :
            m \in 1..MaxHeads, q \in TreeFlowChoices, num_beads \in BeadNumberChoices }

InitBeads == \E a \in BeadArgs : InitWith(a)

\* generate_branch_beads(heads_per_branch, head_spacing_m, num_beads, ...)
GenerateBranchBeads ==
    /\ pc = "start"
    /\ sim' = [beads |->
                IF args.rng = "None"
                THEN generate_branch_beads(args.heads_per_branch, args.head_spacing_m,
                         args.num_beads, args.bead_height_for_weld_mm,
                         BranchPipeSizes(args.heads_per_branch), K1_BASE)
                ELSE generate_branch_beads_rng(args.heads_per_branch, args.head_spacing_m,
                         args.num_beads, args.bead_height_for_weld_mm,
                         BranchPipeSizes(args.heads_per_branch), K1_BASE, args.positions)]
    /\ pc' = "beads_generated"
    /\ UNCHANGED <<args, error, network, system, hc, hc_result, bfs, result, compliance>>

\* _calculate_branch_profile of the branch carrying these weld beads
ProfileOfBeadedBranch ==
    /\ pc = "beads_generated"
    /\ result' = calculate_branch_profile(
                     [At(BuildDynamicSystem(args).branches, 0) EXCEPT !.weld_beads = sim.beads],
                     args.inlet_pressure_mpa, K3)
    /\ pc' = "profiled"
    /\ UNCHANGED <<args, error, network, system, hc, hc_result, bfs, sim, compliance>>

NextBeads ==
    \/ GenerateBranchBeads
    \/ ProfileOfBeadedBranch

SpecBeads == InitBeads /\ [][NextBeads]_vars

\* ------------------------------------------------------------------------
\*  C19
\* ------------------------------------------------------------------------

\* C19: generate_branch_beads returns exactly num_beads beads, none when
\* num_beads <= 0, each with a segment index in 0..heads_per_branch - 1,
\* whether the placement is deterministic or random; so the
\* weld_beads_in_seg counts of the segment details of a branch profile add
\* up to the number of weld beads of the branch.
C19_BeadCountAndSegments ==
    /\ pc \in {"beads_generated", "profiled"} =>
           /\ Len(sim.beads) = IF args.num_beads <= 0 THEN 0 ELSE args.num_beads
           /\ \A k \in 1..Len(sim.beads) :
                  sim.beads[k].segment_index \in 0..(args.heads_per_branch - 1)
    /\ pc = "profiled" =>
           SeqSum([k \in 1..Len(result.segment_details) |->
                      result.segment_details[k].weld_beads_in_seg]) = Len(sim.beads)

\* three randomly placed beads, the last one drawn at the very end of the
\* branch, counted in the profile of a branch of several heads
C19_Witness ==
    /\ pc = "profiled"
    /\ args.rng = "Generator"
    /\ args.heads_per_branch = MaxHeads
    /\ Len(sim.beads) = 3
    /\ args.positions[3] = args.heads_per_branch * args.head_spacing_m
    /\ result.segment_details[args.heads_per_branch].weld_beads_in_seg >= 1

\* ------------------------------------------------------------------------
\*  simulation.py: run_dynamic_monte_carlo
\* ------------------------------------------------------------------------

\* effective_max = min(max_defects, total_fittings)
EffectiveMax(a) == Min(a.max_defects, a.num_branches * a.heads_per_branch)
\* effective_min = min(min_defects, effective_max)
EffectiveMin(a) == Min(a.min_defects, EffectiveMax(a))

\* sorted(flat_positions.tolist())
RECURSIVE SortedSeq(_)
SortedSeq(S) ==
    IF S = {} THEN << >>
    ELSE LET lo == CHOOSE x \in S : \A y \in S : x <= y
         IN  <<lo>> \o SortedSeq(S \ {lo})

\* positions_2d: (b, h) = (flat_idx // heads_per_branch, flat_idx % heads_per_branch)
Positions2d(flat_positions, heads_per_branch) ==
    [k \in 1..Cardinality(flat_positions) |->
        <<SortedSeq(flat_positions)[k] \div heads_per_branch,
          SortedSeq(flat_positions)[k] % heads_per_branch>>]

\* beads_2d: bead_height_mm at the chosen fittings, 0.0 elsewhere
DefectBeads(a, flat_positions) ==
    [b \in 1..a.num_branches |->
        [h \in 1..a.heads_per_branch |->
            IF (b - 1) * a.heads_per_branch + (h - 1) \in flat_positions
            THEN a.bead_height_mm ELSE 0]]

\* a variant that counts a branch's fitting once whatever was chosen
DefectFrequencyAfter_FirstOnly(a, defect_frequency, flat_positions) ==
    [b \in 1..a.num_branches |->
        [h \in 1..a.heads_per_branch |->
            defect_frequency[b][h]
            + (IF h = 1 /\ (b - 1) * a.heads_per_branch \in flat_positions THEN 1 ELSE 0)]]

\* defect_frequency[b][h] += 1 for every chosen fitting
DefectFrequencyAfter(a, defect_frequency, flat_positions) ==
    [b \in 1..a.num_branches |->
        [h \in 1..a.heads_per_branch |->
            defect_frequency[b][h]
            + (IF (b - 1) * a.heads_per_branch + (h - 1) \in flat_positions THEN 1 ELSE 0)]]

\* result["worst_terminal_mpa"] of one trial of the tree topology
TrialWorstTerminal(a, flat_positions) ==
    calculate_dynamic_system(
        BuildDynamicSystem([a EXCEPT !.bead_heights_2d = DefectBeads(a, flat_positions),
                                     !.bead_height_for_weld_mm = a.bead_height_mm]),
        K3).worst_terminal_mpa

\* sim after one trial with these fittings chosen
TrialRecorded(s, a, flat_positions) ==
    [s EXCEPT !.terminal_pressures  = Append(@, TrialWorstTerminal(a, flat_positions)),
              !.defect_configs      = Append(@, Positions2d(flat_positions, a.heads_per_branch)),
              !.defect_frequency_2d = DefectFrequencyAfter(a, @, flat_positions)]

\* np.mean, np.std, np.min and np.max of a non-empty list, np.sum(list < limit)
ListMean(l) == SeqSum(l) \div Len(l)
ListStd(l) == ISqrt(SeqSum([k \in 1..Len(l) |-> (l[k] - ListMean(l)) * (l[k] - ListMean(l))])
                    \div Len(l))
ListMin(l) == CHOOSE x \in {l[k] : k \in 1..Len(l)} : \A k \in 1..Len(l) : x <= l[k]
ListMax(l) == CHOOSE x \in {l[k] : k \in 1..Len(l)} : \A k \in 1..Len(l) : x >= l[k]
CountBelow(l, limit) == Cardinality({k \in 1..Len(l) : l[k] < limit})

\* a Monte-Carlo call of the tree topology without weld beads
MonteCarloCall(n_iterations, min_defects, max_defects, n, m, q) ==
    [n_iterations |-> n_iterations, min_defects |-> min_defects,
     max_defects |-> max_defects, bead_height_mm |-> 150, topology |-> "tree"]
    @@ TreeCall(n, m, DEFAULT_INLET_PRESSURE_MPA, q, 0, 150, << >>)

\* (min_defects, max_defects): the defaults, none to one, more than the
\* fittings, a minimum above the maximum, no defect at all, a negative minimum
DefectRangeChoices == {<<1, 3>>, <<0, 1>>, <<1, 10>>, <<2, 1>>, <<0, 0>>, <<-1, 1>>}
IterationCountChoices == {0, 1, 2}

MonteCarloArgs ==
    { MonteCarloCall(it, r[1], r[2], n, m, q) :
        it \in IterationCountChoices, r \in DefectRangeChoices,
        n \in 1..2, m \in 1..2, q \in {6000} }

InitMC == \E a \in MonteCarloArgs : InitWith(a)

\* run_dynamic_monte_carlo up to its for loop
MCStart ==
    /\ pc = "start"
    /\ sim' = [terminal_pressures  |-> << >>,
               defect_configs      |-> << >>,
               defect_frequency_2d |-> UniformBeads(args.num_branches,
                                                    args.heads_per_branch, 0)]
    /\ pc' = "mc_loop"
    /\ UNCHANGED <<args, error, network, system, hc, hc_result, bfs, result, compliance>>

\* one trial: num_defects = rng.integers(effective_min, effective_max + 1),
\* then rng.choice(total_fittings, size=num_defects, replace=False), which
\* raises ValueError for a negative size
MCTrial ==
    /\ pc = "mc_loop"
    /\ Len(sim.terminal_pressures) < args.n_iterations
    /\ \E num_defects \in EffectiveMin(args)..EffectiveMax(args) :
        IF num_defects < 0
        THEN /\ pc' = "raised"
             /\ error' = "ValueError"
             /\ sim' = sim
        ELSE \E flat_positions \in SUBSET (0..(args.num_branches * args.heads_per_branch - 1)) :
                /\ Cardinality(flat_positions) = num_defects
                /\ sim' = TrialRecorded(sim, args, flat_positions)
                /\ pc' = pc
                /\ error' = error
    /\ UNCHANGED <<args, network, system, hc, hc_result, bfs, result, compliance>>

\* the statistics and the return; np.min of an empty array raises ValueError
MCReturn ==
    /\ pc = "mc_loop"
    /\ Len(sim.terminal_pressures) = args.n_iterations
    /\ IF args.n_iterations = 0
       THEN /\ pc' = "raised"
            /\ error' = "ValueError"
            /\ result' = result
       ELSE /\ pc' = "returned"
            /\ error' = error
            /\ result' =
                [terminal_pressures  |-> sim.terminal_pressures,
                 defect_configs      |-> sim.defect_configs,
                 mean_pressure       |-> ListMean(sim.terminal_pressures),
                 std_pressure        |-> ListStd(sim.terminal_pressures),
                 min_pressure        |-> ListMin(sim.terminal_pressures),
                 max_pressure        |-> ListMax(sim.terminal_pressures),
                 p_below_threshold   |->
                     [num |-> CountBelow(sim.terminal_pressures, MIN_TERMINAL_PRESSURE_MPA),
                      den |-> args.n_iterations],
                 defect_frequency_2d |-> sim.defect_frequency_2d,
                 defect_frequency    |-> [b \in 1..args.num_branches |->
                                             SeqSum(sim.defect_frequency_2d[b])],
                 n_iterations        |-> args.n_iterations,
                 total_fittings      |-> args.num_branches * args.heads_per_branch,
                 beads_per_branch    |-> args.beads_per_branch]
    /\ UNCHANGED <<args, network, system, hc, hc_result, bfs, sim, compliance>>

NextMC ==
    \/ MCStart
    \/ MCTrial
    \/ MCReturn

SpecMC == InitMC /\ [][NextMC]_vars

\* the trials recorded so far, or returned
RecordedConfigs == IF pc = "returned" THEN result.defect_configs ELSE sim.defect_configs
RecordedFrequency == IF pc = "returned" THEN result.defect_frequency_2d ELSE sim.defect_frequency_2d

\* the positions of one trial are distinct fittings (b, h) of the grid
DistinctGridPositions(positions_2d) ==
    /\ \A i, j \in 1..Len(positions_2d) : i # j => positions_2d[i] # positions_2d[j]
    /\ \A i \in 1..Len(positions_2d) :
        /\ positions_2d[i][1] \in 0..(args.num_branches - 1)
        /\ positions_2d[i][2] \in 0..(args.heads_per_branch - 1)

\* C20: run_dynamic_monte_carlo returns exactly n_iterations worst terminal
\* pressures and n_iterations defect configurations; in every trial the
\* defective fittings are distinct positions (b, h) inside the
\* num_branches x heads_per_branch grid, and their number lies between
\* min(min_defects, effective_max) and
\* effective_max = min(max_defects, num_branches * heads_per_branch); the
\* entries of defect_frequency_2d add up to the number of defects placed.
C20_MonteCarloRecords ==
    /\ pc = "returned" =>
        /\ Len(result.terminal_pressures) = args.n_iterations
        /\ Len(result.defect_configs) = args.n_iterations
        /\ result.n_iterations = args.n_iterations
    /\ pc \in {"mc_loop", "returned"} =>
        /\ \A t \in 1..Len(RecordedConfigs) :
            /\ DistinctGridPositions(RecordedConfigs[t])
            /\ Len(RecordedConfigs[t]) >= Min(args.min_defects, EffectiveMax(args))
            /\ Len(RecordedConfigs[t]) <= EffectiveMax(args)
            /\ EffectiveMax(args) = Min(args.max_defects,
                                        args.num_branches * args.heads_per_branch)
        /\ SeqSum([b \in 1..args.num_branches |-> SeqSum(RecordedFrequency[b])])
            = SeqSum([t \in 1..Len(RecordedConfigs) |-> Len(RecordedConfigs[t])])

\* two trials returned, max_defects above the four fittings of the network,
\* one trial with every fitting defective and one with a single defect on
\* the second branch
C20_Witness ==
    /\ pc = "returned"
    /\ args.n_iterations = 2
    /\ args.max_defects > args.num_branches * args.heads_per_branch
    /\ Len(result.defect_configs[1]) = 4
    /\ result.defect_configs[2] = << <<1, 1>> >>
    /\ result.defect_frequency_2d = << <<1, 1>>, <<1, 2>> >>

\* ------------------------------------------------------------------------
\*  properties of the grid's loops and of its seed
\* ------------------------------------------------------------------------

\* inflow minus outflow of a node, the supply at the inlet included
NetFlow(net, node) == NodeFlows(net, node).inflow - NodeFlows(net, node).outflow

\* the node a loop leaves its k-th pipe from, and the node it reaches through
\* it: start to end for direction +1, end to start for direction -1
LoopFrom(pipes, loop, k) ==
    IF loop.directions[k] = 1 THEN At(pipes, loop.pipe_ids[k]).start_node_id
    ELSE At(pipes, loop.pipe_ids[k]).end_node_id
LoopTo(pipes, loop, k) ==
    IF loop.directions[k] = 1 THEN At(pipes, loop.pipe_ids[k]).end_node_id
    ELSE At(pipes, loop.pipe_ids[k]).start_node_id

\* C21: applying one loop's correction (delta_Q times the stored direction
\* added to each pipe of the loop) leaves inflow minus outflow of every node
\* as it was, for every loop generate_grid_network builds, so the balance of
\* the seed is kept through the iterations.
C21_CorrectionKeepsNodeBalance ==
    [][(pc = "hc_loops" /\ hc'.loop_idx = hc.loop_idx + 1) =>
            \A k \in 1..Len(network.nodes) :
                NetFlow(network', network.nodes[k]) = NetFlow(network, network.nodes[k])]_vars

\* C22: the seed _initialize_grid_flows writes balances at every node: inflow,
\* with the external supply at the inlet, equals outflow at each of the
\* 2(n+1) nodes.
C22_SeedBalancesAtEveryNode ==
    pc = "generated" =>
        \A k \in 1..Len(network.nodes) :
            NodeFlows(network, network.nodes[k]).inflow
                = NodeFlows(network, network.nodes[k]).outflow

\* each pipe of the loop ends where the next begins, the last where the first begins
ClosedCycle(pipes, loop) ==
    \A k \in 1..Len(loop.pipe_ids) :
        LoopTo(pipes, loop, k) = LoopFrom(pipes, loop, (k % Len(loop.pipe_ids)) + 1)

\* C23: every GridLoop generate_grid_network builds is an ordered closed
\* cycle: followed along its directions, each pipe ends at the node where the
\* next pipe of the loop begins, and the last ends where the first begins.
C23_LoopsAreClosedCycles ==
    network # NULL =>
        \A k \in 1..Len(network.loops) : ClosedCycle(network.pipes, network.loops[k])

\* the ids of the pipes that occur in an odd number of the loops with indices in S
OddPipes(loops, S) ==
    {pid \in UNION {{loops[k].pipe_ids[j] : j \in 1..Len(loops[k].pipe_ids)} : k \in S} :
        Cardinality({k \in S : \E j \in 1..Len(loops[k].pipe_ids) :
                                    loops[k].pipe_ids[j] = pid}) % 2 = 1}

\* a set of pipes is a cycle (or a union of cycles) of the graph when every
\* node is an endpoint of an even number of them
EvenAtEveryNode(net, pids) ==
    \A k \in 1..Len(net.nodes) :
        Cardinality({pid \in pids :
                        \/ At(net.pipes, pid).start_node_id = net.nodes[k].id
                        \/ At(net.pipes, pid).end_node_id = net.nodes[k].id}) % 2 = 0

\* the nodes reached from the nodes in seen without going through pipe pid
RECURSIVE ReachableWithout(_, _, _)
ReachableWithout(net, pid, seen) ==
    LET more == {nid \in {net.nodes[k].id : k \in 1..Len(net.nodes)} :
                    \E j \in 1..Len(net.pipes) :
                        /\ net.pipes[j].id # pid
                        /\ \/ net.pipes[j].start_node_id \in seen
                              /\ net.pipes[j].end_node_id = nid
                           \/ net.pipes[j].end_node_id \in seen
                              /\ net.pipes[j].start_node_id = nid}
    IN  IF more \subseteq seen THEN seen
        ELSE ReachableWithout(net, pid, seen \cup more)

\* a pipe lies on a cycle when its end is reached from its start without it
OnSomeCycle(net, pid) ==
    At(net.pipes, pid).end_node_id
        \in ReachableWithout(net, pid, {At(net.pipes, pid).start_node_id})

\* the dimension of the cycle space of the connected grid graph
CycleSpaceDimension(net) == Len(net.pipes) - Len(net.nodes) + 1

\* C24: the loops generate_grid_network builds are independent and span the
\* cycle space of the grid graph of 2(n+1) nodes and 3n+2 pipes: each loop is
\* a cycle of the graph, no combination of loops cancels, there are as many
\* loops as the cycle space has dimensions, and every pipe that lies on some
\* cycle, both connectors included, belongs to at least one loop.
C24_LoopsSpanCycleSpace ==
    pc = "generated" =>
        /\ \A k \in 1..Len(network.loops) :
                EvenAtEveryNode(network, OddPipes(network.loops, {k}))
        /\ \A S \in SUBSET (1..Len(network.loops)) :
                S # {} => OddPipes(network.loops, S) # {}
        /\ Len(network.loops) = CycleSpaceDimension(network)
        /\ \A j \in 1..Len(network.pipes) :
                OnSomeCycle(network, network.pipes[j].id) =>
                    \E k \in 1..Len(network.loops) :
                        \E i \in 1..Len(network.loops[k].pipe_ids) :
                            network.loops[k].pipe_ids[i] = network.pipes[j].id

\* ------------------------------------------------------------------------
\*  one Hardy-Cross iteration as a whole
\* ------------------------------------------------------------------------

\* a variant that takes every loop's sums from the flows the iteration began with
RECURSIVE ForLoops_FromStartFlows(_, _, _, _, _, _)
ForLoops_FromStartFlows(h, start_pipes, pipes, loops, k, relaxation) ==
    IF k > Len(loops) THEN [pipes |-> pipes, locals |-> h]
    ELSE ForLoops_FromStartFlows(
            LoopPass(h, pipes, loops[k], LoopSums(start_pipes, loops[k]), relaxation).locals,
            start_pipes,
            LoopPass(h, pipes, loops[k], LoopSums(start_pipes, loops[k]), relaxation).pipes,
            loops, k + 1, relaxation)

\* "for loop in network.loops": the loops in list order from the k-th on,
\* each on the flows the loops before it left
RECURSIVE ForLoops(_, _, _, _, _, _)
ForLoops(h, start_pipes, pipes, loops, k, relaxation) ==
    IF k > Len(loops) THEN [pipes |-> pipes, locals |-> h]
    ELSE ForLoops(
            LoopPass(h, pipes, loops[k], LoopSums(pipes, loops[k]), relaxation).locals,
            start_pipes,
            LoopPass(h, pipes, loops[k], LoopSums(pipes, loops[k]), relaxation).pipes,
            loops, k + 1, relaxation)

\* the whole of "for loop in network.loops" of one iteration
HCLoops ==
    /\ pc = "hc_loops"
    /\ hc.loop_idx = 0
    /\ network' = [network EXCEPT !.pipes =
                      ForLoops(hc, network.pipes, network.pipes, network.loops, 1,
                               args.relaxation).pipes]
    /\ hc' = ForLoops(hc, network.pipes, network.pipes, network.loops, 1,
                      args.relaxation).locals
    /\ UNCHANGED <<pc, args, error, system, hc_result, bfs, result, sim, compliance>>

NextIter ==
    \/ GenerateGridNetwork
    \/ HCStart
    \/ HCFor
    \/ HCLoops
    \/ HCEndIteration
    \/ HCReturn

SpecIter == Init /\ [][NextIter]_vars

\* the sum, over the loops with a correction in deltas, of that correction
\* times the direction of pipe pid in the loop
SumCorrections(loops, deltas, pid) ==
    SeqSum([k \in 1..Len(deltas) |->
        SeqSum([j \in 1..Len(loops[k].pipe_ids) |->
            IF loops[k].pipe_ids[j] = pid THEN deltas[k] * loops[k].directions[j] ELSE 0])])

\* the start flows with the corrections in deltas added
FlowsAfter(start_pipes, loops, deltas) ==
    [i \in 1..Len(start_pipes) |->
        [start_pipes[i] EXCEPT !.flow_lpm = @ + SumCorrections(loops, deltas, start_pipes[i].id)]]

\* deltas and the correction of the next loop, computed on the flows that
\* the corrections in deltas give
WithNextDelta(start_pipes, loops, relaxation, deltas) ==
    Append(deltas,
           LoopDeltaQ(LoopSums(FlowsAfter(start_pipes, loops, deltas),
                               loops[Len(deltas) + 1]), relaxation))

\* the corrections of the first k loops
RECURSIVE Deltas(_, _, _, _)
Deltas(start_pipes, loops, relaxation, k) ==
    IF k = 0 THEN << >>
    ELSE WithNextDelta(start_pipes, loops, relaxation,
                       Deltas(start_pipes, loops, relaxation, k - 1))

RECURSIVE MaxAbs(_)
MaxAbs(l) == IF l = << >> THEN 0 ELSE Max(Abs(l[1]), MaxAbs(Tail(l)))

\* C25: within one iteration the loops are processed in index order, each
\* loop's head-loss sum being taken from the flows the loops before it have
\* corrected; at the end of the iteration every pipe's flow is its flow at the
\* start plus the sum, over the loops containing it, of the loop's delta_Q
\* times the pipe's direction in that loop, and a pipe in no loop keeps its
\* flow.
C25_IterationAccumulatesCorrections ==
    [][(pc = "hc_loops" /\ hc.loop_idx = 0 /\ hc'.loop_idx = Len(network.loops)) =>
        /\ network'.pipes
            = FlowsAfter(network.pipes, network.loops,
                         Deltas(network.pipes, network.loops, args.relaxation,
                                Len(network.loops)))
        /\ hc'.max_delta_Q
            = MaxAbs(Deltas(network.pipes, network.loops, args.relaxation,
                            Len(network.loops)))
        /\ \A i \in 1..Len(network.pipes) :
            (\A k \in 1..Len(network.loops) : \A j \in 1..Len(network.loops[k].pipe_ids) :
                    network.loops[k].pipe_ids[j] # network.pipes[i].id)
                => network'.pipes[i].flow_lpm = network.pipes[i].flow_lpm]_vars

\* the second iteration of a 3-branch grid is over, the first loop and a later
\* loop both corrected the flows, and branch 0, which the first two loops
\* share, no longer carries its seed
C25_Witness ==
    /\ pc = "hc_loops"
    /\ args.num_branches = 3
    /\ hc.iteration = 1
    /\ hc.loop_idx = 3
    /\ hc.max_delta_Q > 0
    /\ BranchPipeOf(network.pipes, 0).flow_lpm # args.total_flow_lpm \div 3
    /\ At(network.pipes, left_conn_id(3)).flow_lpm # args.total_flow_lpm \div 2

\* ------------------------------------------------------------------------
\*  the two computations of a branch pipe's loss
\* ------------------------------------------------------------------------

\* (Q_total_lpm, bead height): flows around the 0.01 LPM threshold without a
\* bead and with one of 11.0 mm, which leaves 4.64 mm of a 25A pipe open;
\* 3 and 6 LPM with and without a 1.5 mm bead
BranchFlowChoices ==
    ({5, 10, 15, 20, 30} \X {0, 1100}) \cup ({3000, 6000} \X {0, 150})

\* a one-branch grid whose branch pipe carries Q_total_lpm in the two calls
BranchCall(m, Q_total_lpm, bead_height_mm, beads) ==
    [Q_total_lpm |-> Q_total_lpm]
    @@ [Args(1, "int", m, "int", DEFAULT_BRANCH_SPACING_M, DEFAULT_HEAD_SPACING_M,
             DEFAULT_INLET_PRESSURE_MPA, 6000, beads, 0, 0, 0, 0)
        EXCEPT !.bead_heights_2d = UniformBeads(1, m, bead_height_mm),
               !.bead_height_for_weld_mm = bead_height_mm]

BranchArgs ==
    { BranchCall(m, c[1], c[2], beads) :
        m \in 1..MaxHeads, c \in BranchFlowChoices, beads \in {0, 6} }

InitBranch == \E a \in BranchArgs : InitWith(a)

\* _branch_total_head_loss(pipe, Q_total_lpm, K1_base, K3_val) of the branch pipe
BranchTotalHeadLoss ==
    /\ pc = "generated"
    /\ sim' = [h |-> branch_total_head_loss(BranchPipeOf(network.pipes, 0),
                                            args.Q_total_lpm, K1_BASE, K3)]
    /\ pc' = "head_loss"
    /\ UNCHANGED <<args, error, network, system, hc, hc_result, bfs, result, compliance>>

\* _calculate_grid_branch_profile(pipe, inlet pressure, Q_total_lpm, K3_val)
CalculateGridBranchProfile ==
    /\ pc = "head_loss"
    /\ result' = calculate_grid_branch_profile(BranchPipeOf(network.pipes, 0),
                                               args.inlet_pressure_mpa,
                                               args.Q_total_lpm, K3)
    /\ pc' = "profiled"
    /\ UNCHANGED <<args, error, network, system, hc, hc_result, bfs, sim, compliance>>

NextBranch ==
    \/ GenerateGridNetwork
    \/ BranchTotalHeadLoss
    \/ CalculateGridBranchProfile

SpecBranch == InitBranch /\ [][NextBranch]_vars

\* the number of losses the profile converts to pressure one by one: K3, and
\* major, K1, K2 and every weld bead of each segment; each conversion rounds
\* down by less than one unit, so the sum of the converted losses is at most
\* this much below the converted sum
ConvertedTerms(pipe) == 1 + 3 * pipe.heads_per_branch + Len(pipe.weld_beads)

\* the branch head loss as a pressure, less the pressure drop of the profile
LossLessProfileDrop ==
    head_to_mpa(sim.h) - (args.inlet_pressure_mpa - result.terminal_pressure_mpa)

\* C26: the branch head loss used inside the Hardy-Cross iteration is the
\* total loss of the branch profile: for every branch pipe and every flow
\* magnitude Q, _branch_total_head_loss(pipe, Q) is the pressure drop, inlet
\* pressure minus terminal pressure, of the profile
\* _calculate_grid_branch_profile computes for the same pipe and Q.  The two
\* are compared as pressures, up to the rounding of the profile's conversions.
C26_BranchLossIsProfileDrop ==
    pc = "profiled" =>
        /\ LossLessProfileDrop >= 0
        /\ LossLessProfileDrop <= ConvertedTerms(BranchPipeOf(network.pipes, 0))

\* ------------------------------------------------------------------------
\*  the solver on networks that carry almost no flow
\* ------------------------------------------------------------------------

\* total flows of 0.012, 0.024 and 0.03 LPM: seeds on both sides of 0.01 LPM
StillFlowChoices == {12, 24, 30}

StillArgs ==
    { Args(n, "int", m, "int", DEFAULT_BRANCH_SPACING_M, DEFAULT_HEAD_SPACING_M,
           DEFAULT_INLET_PRESSURE_MPA, q, 0, it, HC_TOLERANCE_M, HC_TOLERANCE_LPM, rx) :
        n \in 1..MaxBranches, m \in 1..MaxHeads, q \in StillFlowChoices,
        it \in {1, 2, 3}, rx \in RelaxationChoices }

InitStill == \E a \in StillArgs : InitWith(a)

SpecStill == InitStill /\ [][Next]_vars

\* the positions in the loop of the pipes that carry at least 0.01 LPM
FlowingIn(pipes, loop) ==
    SelectSeq([k \in 1..Len(loop.pipe_ids) |-> k],
              LAMBDA k : Abs(At(pipes, loop.pipe_ids[k]).flow_lpm) >= 10)

\* the sums of the loop over its flowing pipes only
SumsOfFlowing(pipes, loop) ==
    SumTerms([i \in 1..Len(FlowingIn(pipes, loop)) |->
                LoopTerm(At(pipes, loop.pipe_ids[FlowingIn(pipes, loop)[i]]),
                         loop.directions[FlowingIn(pipes, loop)[i]])])

\* the loop the solver is about to process
CurrentLoop == At(network.loops, hc.loop_idx)

\* C27: zero-flow states are absorbed in solve_hardy_cross: a pipe whose flow
\* magnitude is below 0.01 LPM adds nothing to the loop's head-loss sum and
\* nothing to its sensitivity sum; a loop whose sensitivity sum is not above
\* the threshold gets delta_Q = 0, which leaves the flow of every pipe as it
\* was; a correction is only ever divided by a positive sensitivity sum and a
\* loss by a flow above 0.01 LPM, and nothing is raised.
C27_ZeroFlowAbsorbed ==
    [][(pc = "hc_loops" /\ hc'.loop_idx = hc.loop_idx + 1) =>
        /\ hc'.max_imbalance
            = Max(hc.max_imbalance, Abs(SumsOfFlowing(network.pipes, CurrentLoop).sum_hf))
        /\ network'.pipes
            = ApplyDeltaQ(network.pipes, CurrentLoop,
                          LoopDeltaQ(SumsOfFlowing(network.pipes, CurrentLoop),
                                     args.relaxation), 1)
        /\ \A k \in 1..Len(CurrentLoop.pipe_ids) :
            LoopTerm(At(network.pipes, CurrentLoop.pipe_ids[k]),
                     CurrentLoop.directions[k]).dhf # 0
                => Abs(At(network.pipes, CurrentLoop.pipe_ids[k]).flow_lpm) > 10
        /\ SumsOfFlowing(network.pipes, CurrentLoop).sum_dhf_dQ <= 0 =>
            /\ network'.pipes = network.pipes
            /\ hc'.max_delta_Q = hc.max_delta_Q
        /\ network'.pipes # network.pipes =>
            SumsOfFlowing(network.pipes, CurrentLoop).sum_dhf_dQ > 0
        /\ error' = "none"]_vars

\* the second loop of a 2-branch grid has just been processed in the second
\* iteration: the right connector still carries nothing, every pipe of the
\* loop is below 0.01 LPM after the first iteration's corrections, and the
\* loop got no correction
C27_Witness ==
    /\ pc = "hc_loops"
    /\ args.num_branches = 2
    /\ hc.iteration = 1
    /\ hc.loop_idx = 2
    /\ hc.max_delta_Q = 0
    /\ \A k \in 1..4 : Abs(At(network.pipes, At(network.loops, 1).pipe_ids[k]).flow_lpm) < 10
    /\ BranchPipeOf(network.pipes, 1).flow_lpm # args.total_flow_lpm \div 2
    /\ BranchPipeOf(network.pipes, 1).flow_lpm # 0

\* ------------------------------------------------------------------------
\*  properties of calculate_grid_pressures
\* ------------------------------------------------------------------------

\* the node where the flow of branch b enters it: TOP of its column for a
\* flow >= 0, BOTTOM for a negative one
EntryNode(b) ==
    IF BranchPipeOf(network.pipes, b).flow_lpm >= 0
    THEN node_id(0, b + 1, network.num_branches + 1)
    ELSE node_id(1, b + 1, network.num_branches + 1)

\* C28: in calculate_grid_pressures each branch profile starts from the
\* pressure of the node where the branch's flow enters, the TOP node of its
\* column when the branch flow is >= 0 and the BOTTOM node when it is
\* negative, and is computed with the absolute value of that flow; the first
\* entry of the profile's pressures is that node's pressure.
C28_ProfileStartsAtEntryNode ==
    pc = "done" =>
        \A b \in 0..(network.num_branches - 1) :
            /\ At(result.branch_inlet_pressures, b) = bfs.node_pressures[EntryNode(b)]
            /\ At(At(result.branch_profiles, b).pressures_mpa, 0)
                = bfs.node_pressures[EntryNode(b)]
            /\ Abs(BranchPipeOf(network.pipes, b).flow_lpm) >= 10 =>
                /\ At(At(result.branch_profiles, b).segment_details, 0).flow_lpm
                    = RoundTo(Abs(BranchPipeOf(network.pipes, b).flow_lpm), 10)
                /\ At(result.branch_profiles, b).terminal_pressure_mpa
                    <= bfs.node_pressures[EntryNode(b)]

\* a finished run in which the last of three branches flows upward, its
\* BOTTOM node at another pressure than its TOP node, and its profile loses
\* pressure from the BOTTOM node's
C28_Witness ==
    /\ pc = "done"
    /\ network.num_branches = 3
    /\ BranchPipeOf(network.pipes, 2).flow_lpm < -10
    /\ bfs.node_pressures[node_id(1, 3, 4)] # bfs.node_pressures[node_id(0, 3, 4)]
    /\ At(result.branch_inlet_pressures, 2) = bfs.node_pressures[node_id(1, 3, 4)]
    /\ At(result.branch_profiles, 2).terminal_pressure_mpa < bfs.node_pressures[node_id(1, 3, 4)]

\* the network with the flow of every pipe blanked
WithoutFlows(net) ==
    [net EXCEPT !.pipes = [k \in 1..Len(net.pipes) |-> [net.pipes[k] EXCEPT !.flow_lpm = 0]]]

\* C29: pipe flow is the only quantity the grid solve mutates:
\* solve_hardy_cross changes nothing in the network but the flow_lpm of pipes
\* (nodes, loops, pipe endpoints, sizes, lengths, junctions and weld beads
\* stay as they are), and calculate_grid_pressures changes nothing in the
\* network at all.
C29_OnlyFlowsChange ==
    [][/\ pc \in {"generated", "hc_for", "hc_loops", "hc_return"} =>
            WithoutFlows(network') = WithoutFlows(network)
       /\ pc \in {"solved", "bfs"} => network' = network]_vars

\* a finished run whose solver moved the flows away from the seed and turned
\* one negative, the rest of the network being as it was generated
C29_Witness ==
    /\ pc = "done"
    /\ hc_result.iterations >= 2
    /\ network.pipes # BuildGridNetwork(args).pipes
    /\ \E k \in 1..Len(network.pipes) : network.pipes[k].flow_lpm < 0
    /\ WithoutFlows(network) = WithoutFlows(BuildGridNetwork(args))

\* ------------------------------------------------------------------------
\* The flows of the tree solver (pipe_network.py, _calculate_branch_profile
\* and calculate_dynamic_system).  The total flows are multiples of
\* 0.01 LPM * 144, so that the share of a branch and the share of a head
\* are whole for up to four branches and four heads and the divisions
\* branch_flow = total / n and head_flow = branch_flow / m are exact, as
\* they are in the reals.
ExactFlowChoices == {5760, 8640}

FlowArgs ==
    { TreeCall(n, m, p, q, 0, existing, << >>) :
        n \in 1..MaxBranches, m \in 1..MaxHeads,
        p \in {DEFAULT_INLET_PRESSURE_MPA, 40000000},
        q \in ExactFlowChoices, existing \in {0, 150} }

InitFlows == \E a \in FlowArgs : InitWith(a)

NextFlows ==
    \/ GenerateDynamicSystem
    \/ CalculateDynamicSystem

SpecFlows == InitFlows /\ [][NextFlows]_vars

\* the loss of a cross-main run of the system that carries flow_lpm
CrossMainRunLoss(sys, flow_lpm) ==
    head_to_mpa(major_loss(
        friction_factor(
            reynolds_number(velocity_from_flow(flow_lpm, get_inner_diameter_m(sys.cross_main_size)),
                            get_inner_diameter_m(sys.cross_main_size)),
            get_inner_diameter_m(sys.cross_main_size)),
        sys.branch_spacing_m, get_inner_diameter_m(sys.cross_main_size),
        velocity_from_flow(flow_lpm, get_inner_diameter_m(sys.cross_main_size))))
    + head_to_mpa(minor_loss(K_TEE_RUN,
        velocity_from_flow(flow_lpm, get_inner_diameter_m(sys.cross_main_size))))

\* the flows reported for the segments of branch b (1-based) of the result
SegmentFlows(b) ==
    [k \in 1..Len(result.branch_profiles[b].segment_details) |->
        result.branch_profiles[b].segment_details[k].flow_lpm]

\* C30: in the tree solver the segment at head index i of a branch with m
\* heads carries branchFlow - i * headFlow with headFlow = branchFlow / m
\* (stated without division: m times the segment flow is (m - i) times the
\* branch flow); the segment flow is strictly positive for every i in
\* 0..m-1, non-increasing in i, and the last segment carries exactly one
\* head's flow.  The cross-main run before branch tap i carries
\* totalFlow - i * branchFlow with branchFlow = totalFlow / n, the loss
\* charged at tap i > 0 is the loss of the run at that flow, and the first
\* tap incurs zero cross-main loss, so that its inlet pressure is the inlet
\* pressure of the system.
C30_TreeFlowsDiminishByShares ==
    pc = "calculated" =>
        /\ \A b \in 1..system.num_branches :
            /\ Len(SegmentFlows(b)) = system.heads_per_branch
            /\ system.branches[b].branch_flow_lpm * system.num_branches
                    = system.total_flow_lpm
            /\ \A i \in 0..(system.heads_per_branch - 1) :
                /\ SegmentFlows(b)[i + 1] * system.heads_per_branch
                        = system.branches[b].branch_flow_lpm
                          * (system.heads_per_branch - i)
                /\ SegmentFlows(b)[i + 1] > 0
            /\ \A i \in 0..(system.heads_per_branch - 2) :
                SegmentFlows(b)[i + 2] <= SegmentFlows(b)[i + 1]
            /\ SegmentFlows(b)[system.heads_per_branch] * system.heads_per_branch
                    = system.branches[b].branch_flow_lpm
        /\ \A i \in 0..(system.num_branches - 1) :
            /\ system.cross_main_segments[i + 1].flow_lpm * system.num_branches
                    = system.total_flow_lpm * (system.num_branches - i)
            /\ i > 0 =>
                result.cross_main_losses[i + 1]
                    = CrossMainRunLoss(system, system.cross_main_segments[i + 1].flow_lpm)
        /\ result.cross_main_losses[1] = 0
        /\ result.branch_inlet_pressures[1] = system.inlet_pressure_mpa

\* three branches of three heads calculated: the segments of a branch carry
\* three, two and one head's flow, and the later taps have lost pressure on
\* the cross main
C30_Witness ==
    /\ pc = "calculated"
    /\ system.num_branches = 3
    /\ system.heads_per_branch = 3
    /\ SegmentFlows(3)[1] > SegmentFlows(3)[2]
    /\ SegmentFlows(3)[2] > SegmentFlows(3)[3]
    /\ result.cross_main_losses[2] > result.cross_main_losses[3]
    /\ result.cross_main_losses[3] > 0
    /\ result.branch_inlet_pressures[3] < result.branch_inlet_pressures[1]

=============================================================================
